---- MODULE Spec2Model ----
(***************************************************************************)
(* Allocation and fulfillment engine of the warehouse backend              *)
(* (src/backend.js) over the relational schema of src/unnamed/part_000.    *)
(*                                                                         *)
(* The committed tables are the variables locations, batches, picks,       *)
(* orders and order_items.  Every mutating handler runs on its own pool    *)
(* connection inside one transaction.  A transaction is a context          *)
(* [pc, req, local, tx]: the statement the handler is at, the request,     *)
(* the handler's local variables, and the pending writes and row locks.    *)
(* Writes are pending until COMMIT; row locks (SELECT ... FOR UPDATE,      *)
(* UPDATE, DELETE) are exclusive and held until COMMIT or ROLLBACK; a      *)
(* plain SELECT reads the committed tables; a locking read or a relative   *)
(* UPDATE reads the committed row plus the transaction's own writes.       *)
(*                                                                         *)
(* Each statement is a function from (tables, context) to the possible     *)
(* next contexts.  Spec runs every handler to its COMMIT or ROLLBACK in    *)
(* one action (requests served one after the other); SpecTxn interleaves   *)
(* the statements of concurrent handlers, a statement waiting while a row  *)
(* it must lock is locked by another connection.  Statements and control   *)
(* flow that touch only what the transaction already owns are folded into  *)
(* the step of the statement before them.                                  *)
(*                                                                         *)
(* SpecAlloc runs intakes against Cold Storage locations with temperature  *)
(* readings, SpecRace runs concurrent orders against the stock of a single *)
(* batch.  Row locks are those of the rows a statement returns or writes;  *)
(* a wait-for cycle ends with the server's deadlock error to one of the    *)
(* waiting handlers.  Lock-wait timeouts and gap locks are not modelled,   *)
(* the shared locks of foreign-key checks only in SpecLog and SpecIntake.  *)
(* Quantities are integers, and request bodies carry the fields the        *)
(* handlers' checks ask for.                                               *)
(*                                                                         *)
(* SpecKeys runs intakes whose requests choose the batch number and the    *)
(* barcode, against the unique indexes of batches.  SpecRead adds the      *)
(* status setters of orders and picks and the two queries of the barcode   *)
(* verification, with writers served between them.  SpecTemp asks for the  *)
(* temperature alerts over locations with readings and update times;       *)
(* days and hours are integers, the clock an input of the reading step.    *)
(*                                                                         *)
(* SpecLog logs temperature readings on concurrent connections, SpecAlerts *)
(* asks for the expiry and low-stock alerts, each two queries with writers *)
(* served between them.  SpecIntake runs concurrent intakes with the       *)
(* allocator's SELECT, the INSERT and the UPDATE as separate steps and the *)
(* shared lock the foreign key check of the INSERT takes on the location.  *)
(* SpecLock runs handlers that contend for the rows of two batches under   *)
(* fairness of the handlers and of the server's deadlock detection;        *)
(* SpecEdit runs edits of batches with and without a location next to      *)
(* orders, some with invalid items.  SpecStatus serves the status setters  *)
(* of orders and picks and the dispatch records after intakes and orders,  *)
(* SpecProduct serves edits that name another product for a batch.         *)
(***************************************************************************)
EXTENDS Integers, Sequences, FiniteSets, TLC

\* ---- bounds of the model ----
NumConn == 2
MaxBatches == 2
MaxOrders == 1
MaxQty == 2
MaxItems == 2
MaxLogs == 3

Conns == 1..NumConn
BatchIds == 1..MaxBatches
Quantities == 1..MaxQty
Products == {1, 2}
Dates == {1, 2}
LocIds == {1, 2, 3}
Statuses == {"Available", "Damaged"}

VARIABLES
    products,       \* products: product_id -> row
    locations,      \* storage_locations: location_id -> row
    batches,        \* batches: batch_id -> row, for the rows that exist
    picks,          \* order_batch_picks: set of rows; pick_id is <<order, n>>
                    \* for the n-th row the handler of that order inserted
    orders,         \* orders: order_id -> row, for the rows that exist
    order_items,    \* order_items: set of rows
    temperature_logs, \* temperature_logs: the rows in the order of their COMMIT
    dispatches,     \* dispatches: set of rows, at most one for an order_id
    nextBatchId,    \* AUTO_INCREMENT of batches.batch_id
    nextOrderId,    \* AUTO_INCREMENT of orders.order_id
    conn,           \* per pool connection: the context of the handler it serves
    response        \* outcome of the request answered last

vars == <<products, locations, batches, picks, orders, order_items, temperature_logs,
          dispatches, nextBatchId, nextOrderId, conn, response>>

committed == <<locations, batches, picks, orders, order_items, temperature_logs,
               dispatches>>

Db == [products |-> products, locations |-> locations, batches |-> batches, picks |-> picks,
       orders |-> orders, order_items |-> order_items,
       nextBatchId |-> nextBatchId, nextOrderId |-> nextOrderId]

\* ---- helpers ----
EmptyFn == [x \in {} |-> 0]

\* Min without the cap: the quantity asked for, whatever the batch holds
Requested(a, b) == a

\* Math.min
Min(a, b) == IF a <= b THEN a ELSE b

RECURSIVE Perms(_)
Perms(S) ==
    IF S = {} THEN {<<>>}
    ELSE UNION {{<<x>> \o p : p \in Perms(S \ {x})} : x \in S}

NoReq == [op |-> "none"]

\* the row and the answer of a verification not yet made
NoBatch == [batch_id |-> 0, quantity |-> 0, expiry_date |-> 0]

NoResult == [isValid |-> FALSE, messages |-> <<>>, pendingPicks |-> {}]

\* the lists of an alert request not yet answered
NoAlerts == [expired |-> {}, expiringSoon |-> <<>>, lowStock |-> <<>>, outOfStock |-> {}]

NoLocal == [suitableLocation |-> 0, newBatchId |-> 0, oldQuantity |-> 0,
            assignedLocationId |-> 0, orderId |-> 0, item |-> 0,
            availableBatches |-> <<>>, remainingToPick |-> 0,
            quantityFromBatch |-> 0, err |-> "none",
            batch |-> NoBatch, today |-> 0, verificationResult |-> NoResult,
            alerts |-> NoAlerts]

NoTx == [wb |-> EmptyFn,                    \* batch rows inserted or updated
         db |-> {},                         \* batch rows deleted
         occ |-> [l \in LocIds |-> 0],      \* pending current_occupancy deltas
         ip |-> {},                         \* picks inserted
         dp |-> {},                         \* batches whose picks are deleted
         io |-> EmptyFn,                    \* order rows inserted
         ii |-> {},                         \* order_items inserted
         lb |-> {},                         \* batch rows locked
         ll |-> {}]                         \* location rows locked

Idle == [pc |-> "idle", req |-> NoReq, local |-> NoLocal, tx |-> NoTx]

\* ---- the tables as a transaction with pending writes w reads them ----
ViewBatches(db, w) ==
    [b \in ((DOMAIN db.batches) \cup (DOMAIN w.wb)) \ w.db |->
        IF b \in DOMAIN w.wb THEN w.wb[b] ELSE db.batches[b]]

ViewPicks(db, w) == {p \in db.picks : p.batch_id \notin w.dp} \cup w.ip

ViewOccupancy(db, w, l) == db.locations[l].current_occupancy + w.occ[l]

\* ---- COMMIT and ROLLBACK ----
Applied(db, w) ==
    [locations |-> [l \in DOMAIN db.locations |->
                       [db.locations[l] EXCEPT !.current_occupancy = ViewOccupancy(db, w, l)]],
     batches |-> ViewBatches(db, w),
     picks |-> ViewPicks(db, w),
     orders |-> [o \in (DOMAIN db.orders) \cup (DOMAIN w.io) |->
                    IF o \in DOMAIN w.io THEN w.io[o] ELSE db.orders[o]],
     order_items |-> db.order_items \cup w.ii]

Unapplied(db, w) ==
    [locations |-> db.locations, batches |-> db.batches, picks |-> db.picks,
     orders |-> db.orders, order_items |-> db.order_items]

\* a commit that loses the rows inserted into order_batch_picks
CommitWithoutPicks(db, w) == [Applied(db, w) EXCEPT !.picks = db.picks]

\* connection.commit()
AfterCommit(db, w) == Applied(db, w)

\* a rollback that fails to undo: the pending writes stay
RollbackKeepsWrites(db, w) == Applied(db, w)

\* connection.rollback()
AfterRollback(db, w) == Unapplied(db, w)

\* ---- DECIMAL(5,2) columns as the driver returns them ----
\* The pool is created without decimalNumbers, so min_temp, max_temp and
\* latest_temperature reach the handler as strings such as "10.00" or "-2.00",
\* and the handler's >= and <= compare them as strings, code unit by code unit.
\* A string is modelled as the sequence of its code units.
RECURSIVE Digits(_)
Digits(n) == IF n < 10 THEN <<48 + n>> ELSE Digits(n \div 10) \o <<48 + (n % 10)>>

DecimalString(t) ==
    (IF t < 0 THEN <<45>> ELSE <<>>) \o Digits(IF t < 0 THEN 0 - t ELSE t) \o <<46, 48, 48>>

RECURSIVE StrLess(_, _)
StrLess(a, b) ==
    IF b = <<>> THEN FALSE
    ELSE IF a = <<>> THEN TRUE
    ELSE IF Head(a) # Head(b) THEN Head(a) < Head(b)
    ELSE StrLess(Tail(a), Tail(b))

StrLeq(a, b) == a = b \/ StrLess(a, b)

\* a nullable temperature column: <<>> is NULL, <<t>> a reading of t degrees
IsNull(v) == v = <<>>

\* ---- findSuitableLocation ----
FreeCapacity(loc) == loc.capacity - loc.current_occupancy

\* HasCapacity without the occupancy: the quantity fits the empty location
FitsWhenEmpty(loc, quantityNeeded) == quantityNeeded <= loc.capacity

\* current_occupancy + ? <= capacity
HasCapacity(loc, quantityNeeded) == loc.current_occupancy + quantityNeeded <= loc.capacity

TemperatureOk(loc) ==
    \/ IsNull(loc.latest_temperature)
    \/ /\ StrLeq(DecimalString(loc.min_temp[1]), DecimalString(loc.latest_temperature[1]))
       /\ StrLeq(DecimalString(loc.latest_temperature[1]), DecimalString(loc.max_temp[1]))

\* WHERE location_type = ? AND current_occupancy + ? <= capacity
candidateLocations(locs, productCategory, quantityNeeded) ==
    {l \in DOMAIN locs : /\ locs[l].location_type = productCategory
                         /\ HasCapacity(locs[l], quantityNeeded)}

\* ORDER BY (capacity - current_occupancy) DESC: every order of the candidates
\* with non-increasing free capacity (rows of equal free capacity in any order)
CandidateOrders(locs, productCategory, quantityNeeded) ==
    {s \in Perms(candidateLocations(locs, productCategory, quantityNeeded)) :
        \A i \in 1..Len(s) : \A j \in 1..Len(s) :
            i < j => FreeCapacity(locs[s[i]]) >= FreeCapacity(locs[s[j]])}

RECURSIVE FirstWithTemperature(_, _)
FirstWithTemperature(s, locs) ==
    IF s = <<>> THEN 0
    ELSE IF TemperatureOk(locs[Head(s)]) THEN Head(s)
    ELSE FirstWithTemperature(Tail(s), locs)

PickSuitable(s, locs, productCategory) ==
    IF productCategory = "Cold Storage" THEN FirstWithTemperature(s, locs)
    ELSE IF Len(s) > 0 THEN s[1] ELSE 0

\* the locations the helper can return for a product of the given category
\* (0: null, no suitable location)
SuitableLocations(locs, productCategory, quantityNeeded) ==
    {PickSuitable(s, locs, productCategory) :
        s \in CandidateOrders(locs, productCategory, quantityNeeded)}

\* findSuitableLocation(connection, productId, quantityNeeded); -1: it throws,
\* the product row is missing
findSuitableLocation(db, productId, quantityNeeded) ==
    IF productId \notin DOMAIN db.products THEN {0 - 1}
    ELSE SuitableLocations(db.locations, db.products[productId].category, quantityNeeded)

\* ---- statements ----
\* UPDATE storage_locations SET current_occupancy = current_occupancy + d
\* WHERE location_id = l: X lock on the row, the change pending until COMMIT
OccupancyUpdate(w, l, d) == [w EXCEPT !.occ[l] = @ + d, !.ll = @ \cup {l}]

\* Fail that records the error and goes on to the commit
FailThenCommit(t, e) == [t EXCEPT !.pc = "commit", !.local.err = e]

\* throw new Error(...): control passes to the catch block
Fail(t, e) == [t EXCEPT !.pc = "rollback", !.local.err = e]

\* barcode || batch_number: a request without a barcode (0) stores the batch
\* number as the barcode
BarcodeOf(barcode, batch_number) == IF barcode = 0 THEN batch_number ELSE barcode

\* DuplicateKey with no unique index on batches
NoUniqueKeys(rows, batch_number, barcode) == "none"

\* batch_number VARCHAR(255) NOT NULL UNIQUE, barcode VARCHAR(255) UNIQUE: the
\* index an INSERT of (batch_number, barcode) collides with, the first in the
\* order of the table's indexes
DuplicateKey(rows, batch_number, barcode) ==
    IF \E b \in DOMAIN rows : rows[b].batch_number = batch_number
    THEN "batches.batch_number"
    ELSE IF \E b \in DOMAIN rows : rows[b].barcode = barcode
    THEN "batches.barcode"
    ELSE "none"

\* POST /batches: findSuitableLocation and INSERT INTO batches. An INSERT that
\* collides with a unique index fails with ER_DUP_ENTRY, answered 409 for
\* batches.batch_number and passed to the generic error handler otherwise; the
\* AUTO_INCREMENT value it drew is not given back.
CreateBatchAllocate(db, t) ==
    {IF loc < 0 THEN Fail(t, "Internal")
     ELSE IF loc = 0 THEN Fail(t, "NoSuitableLocation")
     ELSE LET code == BarcodeOf(t.req.barcode, t.req.batch_number)
              key == DuplicateKey(ViewBatches(db, t.tx), t.req.batch_number, code)
          IN  IF key = "batches.batch_number"
              THEN [Fail(t, "DuplicateBatchNumber") EXCEPT
                        !.local.newBatchId = db.nextBatchId]
              ELSE IF key = "batches.barcode"
              THEN [Fail(t, "DuplicateEntry") EXCEPT
                        !.local.newBatchId = db.nextBatchId]
              ELSE [t EXCEPT !.pc = "incr_occ",
                    !.local.suitableLocation = loc,
                    !.local.newBatchId = db.nextBatchId,
                    !.tx.wb = (db.nextBatchId :>
                                  [product_id |-> t.req.product_id,
                                   batch_number |-> t.req.batch_number,
                                   expiry_date |-> t.req.expiry_date,
                                   quantity |-> t.req.quantity,
                                   barcode |-> code,
                                   assigned_location_id |-> loc,
                                   status |-> "Available"]) @@ @,
                    !.tx.lb = @ \cup {db.nextBatchId}]
     : loc \in findSuitableLocation(db, t.req.product_id, t.req.quantity)}

\* POST /batches: current_occupancy = current_occupancy + quantity
CreateBatchOccupancy(db, t) ==
    {[t EXCEPT !.pc = "commit",
               !.tx = OccupancyUpdate(@, t.local.suitableLocation, t.req.quantity)]}

\* quantityDifference without the old quantity
SetToQuantity(quantity, oldQuantity) == quantity

\* PUT /batches/:id: const quantityDifference = quantity - oldQuantity
quantityDifference(quantity, oldQuantity) == quantity - oldQuantity

\* UpdatedRow with assigned_location_id among the columns set, from a request
\* body that carries none (NULL)
UpdatedRowUnassigned(old, reqv) ==
    [old EXCEPT !.product_id = reqv.product_id,
                !.expiry_date = reqv.expiry_date,
                !.quantity = reqv.quantity,
                !.status = reqv.status,
                !.assigned_location_id = 0]

\* PUT /batches/:id: the columns of UPDATE batches SET ...; assigned_location_id
\* is not among them. The requests modelled resend the batch_number and
\* barcode the row already has, so these two columns keep their values.
UpdatedRow(old, reqv) ==
    [old EXCEPT !.product_id = reqv.product_id,
                !.expiry_date = reqv.expiry_date,
                !.quantity = reqv.quantity,
                !.status = reqv.status]

\* PUT /batches/:id: SELECT quantity, assigned_location_id ... FOR UPDATE and
\* UPDATE batches SET product_id, expiry_date, quantity, status
UpdateBatchRow(db, t) ==
    IF t.req.id \notin DOMAIN db.batches
    THEN {Fail(t, "NotFound")}
    ELSE LET old == db.batches[t.req.id] IN
         {[t EXCEPT !.pc = IF old.assigned_location_id # 0 THEN "adjust_occ" ELSE "commit",
                    !.local.oldQuantity = old.quantity,
                    !.local.assignedLocationId = old.assigned_location_id,
                    !.tx.lb = @ \cup {t.req.id},
                    !.tx.wb = (t.req.id :> UpdatedRow(old, t.req)) @@ @]}

\* PUT /batches/:id: current_occupancy = current_occupancy + quantityDifference
UpdateBatchOccupancy(db, t) ==
    {[t EXCEPT !.pc = "commit",
               !.tx = OccupancyUpdate(@, t.local.assignedLocationId,
                          quantityDifference(t.req.quantity, t.local.oldQuantity))]}

\* DELETE /batches/:id: SELECT ... FOR UPDATE, DELETE FROM order_batch_picks
\* WHERE batch_id = id, DELETE FROM batches WHERE batch_id = id
DeleteBatchRow(db, t) ==
    IF t.req.id \notin DOMAIN db.batches
    THEN {Fail(t, "NotFound")}
    ELSE LET old == db.batches[t.req.id] IN
         {[t EXCEPT !.pc = IF old.assigned_location_id # 0 THEN "release_occ" ELSE "commit",
                    !.local.oldQuantity = old.quantity,
                    !.local.assignedLocationId = old.assigned_location_id,
                    !.tx.lb = @ \cup {t.req.id},
                    !.tx.dp = @ \cup {t.req.id},
                    !.tx.db = @ \cup {t.req.id}]}

\* DeleteBatchOccupancy without the UPDATE: the occupancy is left as it is
DeleteBatchKeepsOccupancy(db, t) == {[t EXCEPT !.pc = "commit"]}

\* DELETE /batches/:id: current_occupancy = current_occupancy - batchQuantity
DeleteBatchOccupancy(db, t) ==
    {[t EXCEPT !.pc = "commit",
               !.tx = OccupancyUpdate(@, t.local.assignedLocationId, 0 - t.local.oldQuantity)]}

\* POST /orders
ItemLists == UNION {[1..n -> [product_id : Products, quantity : Quantities]] : n \in 1..MaxItems}

\* POST /orders: INSERT INTO orders (order_date, status) VALUES (NOW(), 'Pending')
CreateOrderInsert(db, t) ==
    {[t EXCEPT !.pc = "item",
               !.local.orderId = db.nextOrderId,
               !.local.item = 1,
               !.tx.io = (db.nextOrderId :> [status |-> "Pending"]) @@ @]}

\* IsCandidate without the test of the status
InStockAnyStatus(row, product_id) == row.product_id = product_id /\ row.quantity > 0

\* IsCandidate with AND expiry_date >= CURDATE(), asked on the last of the days
IsCandidateUnexpired(row, product_id) ==
    /\ row.product_id = product_id /\ row.quantity > 0 /\ row.status = "Available"
    /\ \A d \in Dates : row.expiry_date >= d

\* WHERE product_id = ? AND quantity > 0 AND status = 'Available'
IsCandidate(row, product_id) ==
    row.product_id = product_id /\ row.quantity > 0 /\ row.status = "Available"

\* ExpiryOrdered with the order reversed: ORDER BY expiry_date DESC
ExpiryDescending(s, rows) ==
    \A i \in 1..Len(s) : \A j \in 1..Len(s) :
        i < j => rows[s[i]].expiry_date >= rows[s[j]].expiry_date

\* ORDER BY expiry_date ASC: an order of the rows with non-decreasing expiry
\* (rows of equal expiry in any order)
ExpiryOrdered(s, rows) ==
    \A i \in 1..Len(s) : \A j \in 1..Len(s) :
        i < j => rows[s[i]].expiry_date <= rows[s[j]].expiry_date

\* ForUpdate without the lock: a plain SELECT
NoRowLock(ids) == {}

\* the rows a SELECT ... FOR UPDATE locks: the rows it returns
ForUpdate(ids) == ids

CurrentItem(t) == t.req.items[t.local.item]

SelectedBatches(db, t) ==
    {b \in DOMAIN ViewBatches(db, t.tx) :
        IsCandidate(ViewBatches(db, t.tx)[b], CurrentItem(t).product_id)}

LoopContinues(t) == t.local.remainingToPick > 0 /\ t.local.availableBatches # <<>>

\* POST /orders, after the loop over availableBatches: throw if
\* remainingToPick > 0, else go to the next item, or COMMIT after the last
AfterLoop(t) ==
    IF LoopContinues(t) THEN t
    ELSE IF t.local.remainingToPick > 0 THEN Fail(t, "InsufficientStock")
    ELSE IF t.local.item < Len(t.req.items)
    THEN [t EXCEPT !.pc = "item", !.local.item = @ + 1, !.local.availableBatches = <<>>]
    ELSE [t EXCEPT !.pc = "commit", !.local.availableBatches = <<>>]

\* InvalidItem of a loop that does not check its items
NoItemCheck(item) == FALSE

\* !product_id || quantity === undefined || isNaN(quantity) || quantity <= 0;
\* a product_id of 0 is one that is missing
InvalidItem(item) == item.product_id = 0 \/ item.quantity <= 0

\* POST /orders: the item check, INSERT INTO order_items, and
\* SELECT ... FROM batches ... ORDER BY expiry_date ASC FOR UPDATE
OrderItemSelect(db, t) ==
    IF InvalidItem(CurrentItem(t))
    THEN {Fail(t, "Validation")}
    ELSE LET rows == ViewBatches(db, t.tx) IN
         {AfterLoop([t EXCEPT
              !.pc = "pick",
              !.local.availableBatches =
                  [i \in 1..Len(s) |->
                      [batch_id |-> s[i], quantity |-> rows[s[i]].quantity,
                       assigned_location_id |-> rows[s[i]].assigned_location_id,
                       expiry_date |-> rows[s[i]].expiry_date]],
              !.local.remainingToPick = CurrentItem(t).quantity,
              !.tx.ii = @ \cup {[order_id |-> t.local.orderId, item |-> t.local.item,
                                 product_id |-> CurrentItem(t).product_id,
                                 quantity |-> CurrentItem(t).quantity]},
              !.tx.lb = @ \cup ForUpdate(SelectedBatches(db, t))])
          : s \in {o \in Perms(SelectedBatches(db, t)) : ExpiryOrdered(o, rows)}}

\* PickKeyTaken with no unique index on order_batch_picks
NoPickKey(rows, order_id, batch_id) == FALSE

\* UNIQUE(order_id, batch_id): a pick of this batch for this order exists
PickKeyTaken(rows, order_id, batch_id) ==
    \E p \in rows : p.order_id = order_id /\ p.batch_id = batch_id

\* POST /orders, one round of the loop: INSERT INTO order_batch_picks and
\* UPDATE batches SET quantity = quantity - quantityFromBatch
OrderPick(db, t) ==
    LET batch == Head(t.local.availableBatches)
        quantityFromBatch == Min(t.local.remainingToPick, batch.quantity)
    IN  IF PickKeyTaken(ViewPicks(db, t.tx), t.local.orderId, batch.batch_id)
        THEN {Fail(t, "Duplicate")}
        ELSE LET u == [t EXCEPT
                     !.tx.ip = @ \cup {[pick_id |-> <<t.local.orderId,
                                                      Cardinality(t.tx.ip) + 1>>,
                                        order_id |-> t.local.orderId,
                                        batch_id |-> batch.batch_id,
                                        quantity_picked |-> quantityFromBatch,
                                        status |-> "Pending Pick"]},
                     !.tx.lb = @ \cup {batch.batch_id},
                     !.tx.wb = (batch.batch_id :>
                                   [ViewBatches(db, t.tx)[batch.batch_id] EXCEPT
                                       !.quantity = @ - quantityFromBatch]) @@ @]
             IN  IF batch.assigned_location_id # 0
                 THEN {[u EXCEPT !.pc = "deplete_occ",
                                 !.local.quantityFromBatch = quantityFromBatch]}
                 ELSE {AfterLoop([u EXCEPT !.local.remainingToPick = @ - quantityFromBatch,
                                           !.local.availableBatches = Tail(@)])}

\* OrderPickOccupancy with the occupancy lowered by what is left to pick
\* instead of what was taken from the batch
OrderPickOccupancyByRemaining(db, t) ==
    {AfterLoop([t EXCEPT
         !.pc = "pick",
         !.tx = OccupancyUpdate(@, Head(t.local.availableBatches).assigned_location_id,
                                0 - t.local.remainingToPick),
         !.local.remainingToPick = @ - t.local.quantityFromBatch,
         !.local.availableBatches = Tail(@),
         !.local.quantityFromBatch = 0])}

\* POST /orders: current_occupancy = current_occupancy - quantityFromBatch,
\* then remainingToPick -= quantityFromBatch
OrderPickOccupancy(db, t) ==
    {AfterLoop([t EXCEPT
         !.pc = "pick",
         !.tx = OccupancyUpdate(@, Head(t.local.availableBatches).assigned_location_id,
                                0 - t.local.quantityFromBatch),
         !.local.remainingToPick = @ - t.local.quantityFromBatch,
         !.local.availableBatches = Tail(@),
         !.local.quantityFromBatch = 0])}

\* ---- a handler, statement by statement ----
Start(reqv) ==
    [Idle EXCEPT !.req = reqv,
                 !.pc = IF reqv.op = "createBatch" THEN "allocate"
                        ELSE IF reqv.op = "updateBatch" THEN "update_row"
                        ELSE IF reqv.op = "deleteBatch" THEN "delete_row"
                        ELSE "insert_order"]

Ended(t) == t.pc \in {"commit", "rollback"}

\* the contexts the next statement of t can lead to
StepSet(db, t) ==
    IF t.pc = "allocate" THEN CreateBatchAllocate(db, t)
    ELSE IF t.pc = "incr_occ" THEN CreateBatchOccupancy(db, t)
    ELSE IF t.pc = "update_row" THEN UpdateBatchRow(db, t)
    ELSE IF t.pc = "adjust_occ" THEN UpdateBatchOccupancy(db, t)
    ELSE IF t.pc = "delete_row" THEN DeleteBatchRow(db, t)
    ELSE IF t.pc = "release_occ" THEN DeleteBatchOccupancy(db, t)
    ELSE IF t.pc = "insert_order" THEN CreateOrderInsert(db, t)
    ELSE IF t.pc = "item" THEN OrderItemSelect(db, t)
    ELSE IF t.pc = "pick" THEN OrderPick(db, t)
    ELSE IF t.pc = "deplete_occ" THEN OrderPickOccupancy(db, t)
    ELSE {}

\* the handler run from t to its COMMIT or ROLLBACK with no other connection active
RECURSIVE RunToEnd(_, _)
RunToEnd(db, t) ==
    IF Ended(t) THEN {t} ELSE UNION {RunToEnd(db, u) : u \in StepSet(db, t)}

\* Outcome that answers success whatever the handler ended with
AlwaysOk(t) == "ok"

\* what the handler answers: success after COMMIT, the error thrown otherwise
Outcome(t) == IF t.pc = "commit" THEN "ok" ELSE t.local.err

Concluded(db, t) == IF t.pc = "commit" THEN AfterCommit(db, t.tx) ELSE AfterRollback(db, t.tx)

SetCommitted(s) ==
    /\ locations' = s.locations
    /\ batches' = s.batches
    /\ picks' = s.picks
    /\ orders' = s.orders
    /\ order_items' = s.order_items
    /\ UNCHANGED <<temperature_logs, dispatches>>

\* AUTO_INCREMENT values are consumed by the INSERT, also when it is rolled back
SetCounters(t) ==
    /\ nextBatchId' = IF t.local.newBatchId # 0 THEN t.local.newBatchId + 1 ELSE nextBatchId
    /\ nextOrderId' = IF t.local.orderId # 0 THEN t.local.orderId + 1 ELSE nextOrderId

\* ---- Spec: every request served to its end before the next starts ----
\* Valid without the checks of the request body
Unchecked(reqv) == TRUE

\* the check of the request body before a connection is taken (status 400)
Valid(reqv) ==
    IF reqv.op = "createBatch" THEN reqv.batch_number # 0 /\ reqv.quantity > 0
    ELSE IF reqv.op = "updateBatch" THEN reqv.quantity >= 0
    ELSE IF reqv.op = "createOrder" THEN Len(reqv.items) > 0
    ELSE TRUE

Handle(reqv) ==
    IF Valid(reqv)
    THEN \E t \in RunToEnd(Db, Start(reqv)) :
            /\ SetCommitted(Concluded(Db, t))
            /\ SetCounters(t)
            /\ response' = Outcome(t)
            /\ UNCHANGED <<conn, products>>
    ELSE /\ response' = "Validation"
         /\ UNCHANGED <<products, committed, nextBatchId, nextOrderId, conn>>

\* POST /batches with the batch number and the barcode (0: none) of the body
CreateBatchNumbered(product_id, batch_number, barcode, expiry_date, quantity) ==
    /\ nextBatchId <= MaxBatches
    /\ Handle([op |-> "createBatch", product_id |-> product_id,
               batch_number |-> batch_number, barcode |-> barcode,
               expiry_date |-> expiry_date, quantity |-> quantity])

\* POST /batches with a batch number not used before and no barcode
CreateBatch(product_id, expiry_date, quantity) ==
    CreateBatchNumbered(product_id, nextBatchId, 0, expiry_date, quantity)

UpdateBatch(id, product_id, expiry_date, quantity, status) ==
    Handle([op |-> "updateBatch", id |-> id, product_id |-> product_id,
            expiry_date |-> expiry_date, quantity |-> quantity, status |-> status])

DeleteBatch(id) == Handle([op |-> "deleteBatch", id |-> id])

CreateOrder(items) ==
    /\ nextOrderId <= MaxOrders
    /\ Handle([op |-> "createOrder", items |-> items])

\* ---- initial states ----
\* the catalogue: product 1 is Ambient, product 2 Cold Storage
Catalogue ==
    [p \in Products |-> [category |-> IF p = 1 THEN "Ambient" ELSE "Cold Storage"]]

\* a storage_locations row; a location with a reading got it at hour 0
\* (POST /temperature_logs sets latest_temperature and last_temp_update together)
Location(type, capacity, min_temp, max_temp, latest_temperature) ==
    [location_type |-> type, capacity |-> capacity, current_occupancy |-> 0,
     min_temp |-> min_temp, max_temp |-> max_temp,
     latest_temperature |-> latest_temperature,
     last_temp_update |-> IF latest_temperature = <<>> THEN <<>> ELSE <<0>>]

\* an Ambient location, a Cold Storage location with no reading yet and one
\* with a reading in range
InitLocations ==
    [l \in LocIds |->
        IF l = 1 THEN Location("Ambient", 3, <<>>, <<>>, <<>>)
        ELSE IF l = 2 THEN Location("Cold Storage", 2, <<2>>, <<8>>, <<>>)
        ELSE Location("Cold Storage", 3, <<2>>, <<8>>, <<5>>)]

InitRest ==
    /\ batches = EmptyFn
    /\ picks = {}
    /\ orders = EmptyFn
    /\ order_items = {}
    /\ temperature_logs = <<>>
    /\ dispatches = {}
    /\ nextBatchId = 1
    /\ nextOrderId = 1
    /\ conn = [r \in Conns |-> Idle]
    /\ response = "none"

Init == products = Catalogue /\ locations = InitLocations /\ InitRest

Next ==
    \/ \E p \in Products, e \in Dates, q \in 0..MaxQty : CreateBatch(p, e, q)
    \/ \E id \in DOMAIN batches, q \in (0 - 1)..MaxQty, st \in Statuses :
           UpdateBatch(id, batches[id].product_id, batches[id].expiry_date, q, st)
    \/ \E id \in BatchIds \ DOMAIN batches :
           UpdateBatch(id, 1, 1, 1, "Available")
    \/ \E id \in BatchIds : DeleteBatch(id)
    \/ \E items \in ItemLists \cup {<<>>} : CreateOrder(items)

Spec == Init /\ [][Next]_vars

\* ---- SpecTxn: concurrent handlers, statement by statement ----
\* pool.getConnection(): the request is served on a free connection; which one
\* is immaterial, so the lowest free one is taken
FreeConn(r) == conn[r].pc = "idle" /\ \A r2 \in Conns : r2 < r => conn[r2].pc # "idle"

\* db with the pending writes of the connections rs applied
RECURSIVE WithPendingOf(_, _)
WithPendingOf(db, rs) ==
    IF rs = {} THEN db
    ELSE LET r == CHOOSE x \in rs : TRUE
             a == Applied(db, conn[r].tx)
         IN  WithPendingOf([db EXCEPT !.locations = a.locations, !.batches = a.batches,
                                      !.picks = a.picks, !.orders = a.orders,
                                      !.order_items = a.order_items], rs \ {r})

\* TablesSeenBy without transactions: every write of the other connections
\* shows at once
TablesWithPending(r) == WithPendingOf(Db, Conns \ {r})

\* the tables as a statement on connection r finds them: the work of the
\* other connections shows once they have committed, their transactions
\* begun with beginTransaction() keep it pending until then
TablesSeenBy(r) == Db

\* NeedsBatches of statements that read and write batches without locking
NeedsNoBatches(db, t) == {}

\* the rows the next statement of t must lock
NeedsBatches(db, t) ==
    IF t.pc \in {"update_row", "delete_row"} THEN {t.req.id}
    ELSE IF t.pc = "item" THEN ForUpdate(SelectedBatches(db, t))
    ELSE IF t.pc = "pick" THEN {Head(t.local.availableBatches).batch_id}
    ELSE {}

NeedsLocations(db, t) ==
    IF t.pc = "incr_occ" THEN {t.local.suitableLocation}
    ELSE IF t.pc \in {"adjust_occ", "release_occ"} THEN {t.local.assignedLocationId}
    ELSE IF t.pc = "deplete_occ" THEN {Head(t.local.availableBatches).assigned_location_id}
    ELSE {}

\* the connections holding a lock the next statement of t, run on r, waits for
Holders(r, t) ==
    {r2 \in Conns \ {r} : \/ NeedsBatches(TablesSeenBy(r), t) \cap conn[r2].tx.lb # {}
                          \/ NeedsLocations(TablesSeenBy(r), t) \cap conn[r2].tx.ll # {}}

\* WaitsForWithin on a server that does not look for lock-wait cycles
WaitsForNobody(r, n) == {}

RECURSIVE WaitsForWithin(_, _)
WaitsForWithin(r, n) ==
    IF n = 0 THEN {}
    ELSE Holders(r, conn[r]) \cup
         UNION {WaitsForWithin(r2, n - 1) : r2 \in Holders(r, conn[r])}

\* a request arrives: its handler takes a connection, begins the transaction
\* and runs its first statement
Begin(r, reqv) ==
    /\ Valid(reqv)
    /\ FreeConn(r)
    /\ Holders(r, Start(reqv)) = {}
    /\ \E t \in StepSet(TablesSeenBy(r), Start(reqv)) :
        /\ conn' = [conn EXCEPT ![r] = t]
        /\ SetCounters(t)
    /\ UNCHANGED <<products, committed, response>>

\* the next statement of the handler on connection r
Statement(r) ==
    /\ ~Ended(conn[r])
    /\ Holders(r, conn[r]) = {}
    /\ \E t \in StepSet(TablesSeenBy(r), conn[r]) : conn' = [conn EXCEPT ![r] = t]
    /\ UNCHANGED <<products, committed, nextBatchId, nextOrderId, response>>

TxnCreateBatch(r, product_id, expiry_date, quantity) ==
    /\ nextBatchId <= MaxBatches
    /\ Begin(r, [op |-> "createBatch", product_id |-> product_id,
                 batch_number |-> nextBatchId, barcode |-> 0,
                 expiry_date |-> expiry_date, quantity |-> quantity])

TxnUpdateBatch(r, id, product_id, expiry_date, quantity, status) ==
    Begin(r, [op |-> "updateBatch", id |-> id, product_id |-> product_id,
              expiry_date |-> expiry_date, quantity |-> quantity, status |-> status])

TxnDeleteBatch(r, id) == Begin(r, [op |-> "deleteBatch", id |-> id])

TxnCreateOrder(r, items) ==
    /\ nextOrderId <= MaxOrders
    /\ Begin(r, [op |-> "createOrder", items |-> items])

\* the UPDATE of storage_locations of each handler
TxnOccupancy(r) ==
    /\ conn[r].pc \in {"incr_occ", "adjust_occ", "release_occ", "deplete_occ"}
    /\ Statement(r)

TxnOrderItem(r) == conn[r].pc = "item" /\ Statement(r)

TxnOrderPick(r) == conn[r].pc = "pick" /\ Statement(r)

\* the lock wait of r is part of a cycle: the server ends it with
\* ER_LOCK_DEADLOCK and the handler's catch block runs
DeadlockVictim(r) ==
    /\ ~Ended(conn[r])
    /\ r \in WaitsForWithin(r, NumConn)
    /\ conn' = [conn EXCEPT ![r] = Fail(@, "Deadlock")]
    /\ UNCHANGED <<products, committed, nextBatchId, nextOrderId, response>>

\* connection.commit() / connection.rollback(), the response, connection.release()
Conclude(r) ==
    /\ Ended(conn[r])
    /\ SetCommitted(Concluded(Db, conn[r]))
    /\ response' = Outcome(conn[r])
    /\ conn' = [conn EXCEPT ![r] = Idle]
    /\ UNCHANGED <<products, nextBatchId, nextOrderId>>

Commit(r) == conn[r].pc = "commit" /\ Conclude(r)

Rollback(r) == conn[r].pc = "rollback" /\ Conclude(r)

\* SpecTxn starts from a catalogue whose products share a category, and so
\* the Ambient location: their batches contend for one storage_locations row
TxnCatalogue == [p \in Products |-> [category |-> "Ambient"]]

TxnInit == products = TxnCatalogue /\ locations = InitLocations /\ InitRest

TxnNext ==
    \E r \in Conns :
        \/ \E p \in Products, q \in Quantities : TxnCreateBatch(r, p, 1, q)
        \/ \E id \in DOMAIN batches, q \in 0..MaxQty :
               TxnUpdateBatch(r, id, batches[id].product_id, batches[id].expiry_date,
                              q, batches[id].status)
        \/ \E id \in DOMAIN batches : TxnDeleteBatch(r, id)
        \/ \E items \in ItemLists : TxnCreateOrder(r, items)
        \/ TxnOccupancy(r)
        \/ TxnOrderItem(r)
        \/ TxnOrderPick(r)
        \/ DeadlockVictim(r)
        \/ Commit(r)
        \/ Rollback(r)

SpecTxn == TxnInit /\ [][TxnNext]_vars

\* ---- SpecAlloc: intake against Cold Storage locations with readings ----
\* latest_temperature values: NULL, and readings below zero, of one digit and
\* of two digits
Readings == {<<>>, <<0 - 1>>, <<3>>, <<10>>}

\* location 2 keeps [2, 8] degrees, location 3 keeps [-2, 4] degrees
AllocLocations(reading2, reading3) ==
    [l \in LocIds |->
        IF l = 1 THEN Location("Ambient", 3, <<>>, <<>>, <<>>)
        ELSE IF l = 2 THEN Location("Cold Storage", 2, <<2>>, <<8>>, reading2)
        ELSE Location("Cold Storage", 3, <<0 - 2>>, <<4>>, reading3)]

AllocInit ==
    /\ products = Catalogue
    /\ \E reading2 \in Readings, reading3 \in Readings :
           locations = AllocLocations(reading2, reading3)
    /\ InitRest

AllocNext ==
    \/ \E p \in Products, q \in Quantities : CreateBatch(p, 1, q)
    \/ \E id \in DOMAIN batches : DeleteBatch(id)

SpecAlloc == AllocInit /\ [][AllocNext]_vars

\* ---- SpecKeys: intake with the batch numbers and barcodes of the requests ----
BatchNumbers == 1..MaxBatches

KeysNext ==
    \/ \E p \in Products, n \in BatchNumbers \cup {0}, c \in BatchNumbers \cup {0},
          q \in Quantities :
           CreateBatchNumbered(p, n, c, 1, q)
    \/ \E id \in DOMAIN batches : DeleteBatch(id)

SpecKeys == Init /\ [][KeysNext]_vars

\* ---- SpecRead: picking, with the status setters and barcode verification ----
\* OrderStatuses of a handler that does not accept a cancellation
OrderStatusesWithoutCancelled == {"Pending", "Completed", "Dispatched"}

OrderStatuses == {"Pending", "Completed", "Dispatched", "Cancelled"}

PickStatuses == {"Picked", "Pending Pick", "Dispatched"}

\* PUT /orders/:orderId, one autocommitted UPDATE
SetOrderStatus(orderId, status) ==
    /\ IF status \notin OrderStatuses
       THEN response' = "Validation" /\ UNCHANGED orders
       ELSE IF orderId \notin DOMAIN orders
       THEN response' = "NotFound" /\ UNCHANGED orders
       ELSE /\ orders' = [orders EXCEPT ![orderId].status = status]
            /\ response' = "ok"
    /\ UNCHANGED <<products, locations, batches, picks, order_items, temperature_logs, dispatches,
                   nextBatchId, nextOrderId, conn>>

\* PUT /order_batch_picks/:pickId, one autocommitted UPDATE; the pick is named
\* by its order and batch, which pick_id stands for
SetPickStatus(order_id, batch_id, status) ==
    LET rows == {p \in picks : p.order_id = order_id /\ p.batch_id = batch_id} IN
    /\ IF status \notin PickStatuses
       THEN response' = "Validation" /\ UNCHANGED picks
       ELSE IF rows = {}
       THEN response' = "NotFound" /\ UNCHANGED picks
       ELSE /\ picks' = (picks \ rows) \cup {[p EXCEPT !.status = status] : p \in rows}
            /\ response' = "ok"
    /\ UNCHANGED <<products, locations, batches, orders, order_items, temperature_logs, dispatches,
                   nextBatchId, nextOrderId, conn>>

\* days of the window of the 'Expiring Soon' message
ExpiringSoonDays == 30

\* the days on which a barcode is verified: long before the expiry dates, on
\* the last of them, after all of them
Todays == {0 - ExpiringSoonDays, 2, 3}

\* expiryDate at 23:59:59.999 < today at 00:00:00.000
Expired(expiry_date, today) == expiry_date < today

\* expiryDate at 23:59:59.999 <= thirtyDaysFromNow at 23:59:59.999
ExpiringSoon(expiry_date, today) == expiry_date <= today + ExpiringSoonDays

\* BarcodeNotFound with no message
NotFoundSilently == [isValid |-> FALSE, messages |-> <<>>, pendingPicks |-> {}]

\* res.json({ isValid: false, messages: ['Barcode not found.'] })
BarcodeNotFound ==
    [isValid |-> FALSE, messages |-> <<"Barcode not found.">>, pendingPicks |-> {}]

\* GET /verify-barcode: the checks of stock and expiry on the row read
StockAndExpiry(batch, today) ==
    LET stock == IF batch.quantity <= 0 THEN <<"Batch is out of stock">> ELSE <<>>
        expiry == IF Expired(batch.expiry_date, today) THEN <<"Expired">>
                  ELSE IF ExpiringSoon(batch.expiry_date, today) THEN <<"Expiring Soon">>
                  ELSE <<>>
    IN  [isValid |-> batch.quantity > 0 /\ ~Expired(batch.expiry_date, today),
         messages |-> stock \o expiry,
         pendingPicks |-> {}]

\* PendingPicks without the join to the orders' status
PendingPickRows(db, batch_id) ==
    {p \in db.picks : p.batch_id = batch_id /\ p.status = "Pending Pick"}

\* SELECT ... FROM order_batch_picks obp JOIN orders o ON obp.order_id = o.order_id
\* WHERE obp.batch_id = ? AND obp.status = 'Pending Pick' AND o.status = 'Pending'
PendingPicks(db, batch_id) ==
    {p \in db.picks : /\ p.batch_id = batch_id
                      /\ p.status = "Pending Pick"
                      /\ p.order_id \in DOMAIN db.orders
                      /\ db.orders[p.order_id].status = "Pending"}

\* GET /verify-barcode: the check of the pending picks found
PickListCheck(result, batch, today, pendingPicks) ==
    IF pendingPicks # {}
    THEN [result EXCEPT !.pendingPicks = pendingPicks,
                        !.messages = Append(@, "Part of pending order(s) for picking")]
    ELSE IF batch.quantity > 0 /\ ~Expired(batch.expiry_date, today)
    THEN [result EXCEPT
             !.isValid = FALSE,
             !.messages = Append(@, "This batch is not part of any *active* pending pick list.")]
    ELSE result

\* the connection that serves the verifications
Reader == 1

\* GET /verify-barcode/:barcode, first query: SELECT ... FROM batches b JOIN
\* products p ... WHERE b.barcode = ?, and the checks on the row
VerifyBatchQuery(r, barcode, today) ==
    LET rows == {b \in DOMAIN batches : batches[b].barcode = barcode}
        asked == [Idle EXCEPT !.req = [op |-> "verifyBarcode", barcode |-> barcode],
                              !.local.today = today]
    IN  /\ conn[r].pc \in {"idle", "verified"}
        /\ IF rows = {}
           THEN conn' = [conn EXCEPT ![r] =
                            [asked EXCEPT !.pc = "verified",
                                          !.local.verificationResult = BarcodeNotFound]]
           ELSE \E b \in rows :
                  LET batch == [batch_id |-> b, quantity |-> batches[b].quantity,
                                expiry_date |-> batches[b].expiry_date]
                  IN  conn' = [conn EXCEPT ![r] =
                                  [asked EXCEPT
                                      !.pc = "verify_picks",
                                      !.local.batch = batch,
                                      !.local.verificationResult =
                                          StockAndExpiry(batch, today)]]
        /\ UNCHANGED <<products, committed, nextBatchId, nextOrderId, response>>

\* GET /verify-barcode/:barcode, second query: the pending picks of the batch,
\* and the answer
VerifyPicksQuery(r) ==
    /\ conn[r].pc = "verify_picks"
    /\ conn' = [conn EXCEPT ![r] =
                  [@ EXCEPT !.pc = "verified",
                            !.local.verificationResult =
                                PickListCheck(@, conn[r].local.batch, conn[r].local.today,
                                              PendingPicks(Db, conn[r].local.batch.batch_id))]]
    /\ UNCHANGED <<products, committed, nextBatchId, nextOrderId, response>>

ReadNext ==
    \/ \E e \in Dates, q \in Quantities : CreateBatch(1, e, q)
    \/ \E q \in Quantities : CreateOrder(<<[product_id |-> 1, quantity |-> q]>>)
    \/ \E o \in 1..MaxOrders, st \in OrderStatuses \cup {"Unknown"} : SetOrderStatus(o, st)
    \/ \E o \in 1..MaxOrders, b \in BatchIds, st \in PickStatuses \cup {"Unknown"} :
           SetPickStatus(o, b, st)
    \/ \E id \in DOMAIN batches : DeleteBatch(id)
    \/ \E c \in BatchNumbers \cup {MaxBatches + 1}, d \in Todays :
           VerifyBatchQuery(Reader, c, d)
    \/ VerifyPicksQuery(Reader)

SpecRead == Init /\ [][ReadNext]_vars

\* ---- SpecTemp: the temperature alerts over locations with readings ----
\* INTERVAL 1 HOUR, 3600000 ms: times are counted in hours
StaleAfterHours == 1

\* readings below, inside and above the ranges [2, 8] and [-2, 4]
TempReadings == {<<0 - 3>>, <<0 - 1>>, <<3>>, <<10>>}

\* the hours at which a reading was logged, and at which the alerts are asked
UpdateTimes == {0, 2}

Nows == {2, 3, 4}

\* GET /alerts/temperature, the WHERE clause, evaluated by the database on
\* the DECIMAL and TIMESTAMP values
SelectedForAlert(loc, now) ==
    /\ loc.location_type = "Cold Storage"
    /\ \/ IsNull(loc.latest_temperature)
       \/ loc.latest_temperature[1] < loc.min_temp[1]
       \/ loc.latest_temperature[1] > loc.max_temp[1]
       \/ IsNull(loc.last_temp_update)
       \/ loc.last_temp_update[1] < now - StaleAfterHours

\* GET /alerts/temperature, the classification in alerts.map: the DECIMAL
\* columns arrive as strings and < and > compare them as strings; the
\* TIMESTAMP arrives as a Date and is compared by its time
AlertType(loc, now) ==
    IF IsNull(loc.latest_temperature) \/ IsNull(loc.last_temp_update)
    THEN "No Readings"
    ELSE IF StrLess(DecimalString(loc.latest_temperature[1]), DecimalString(loc.min_temp[1]))
    THEN "Low Temperature"
    ELSE IF StrLess(DecimalString(loc.max_temp[1]), DecimalString(loc.latest_temperature[1]))
    THEN "High Temperature"
    ELSE IF loc.last_temp_update[1] < now - StaleAfterHours
    THEN "Stale Reading"
    ELSE ""

\* GET /alerts/temperature at hour now; no stored update time lies ahead of
\* the clock
GetTemperatureAlerts(now) ==
    /\ \A l \in DOMAIN locations :
          IF IsNull(locations[l].last_temp_update) THEN TRUE
          ELSE locations[l].last_temp_update[1] <= now
    /\ response' = {[location_id |-> l, alert_type |-> AlertType(locations[l], now)] :
                        l \in {x \in DOMAIN locations : SelectedForAlert(locations[x], now)}}
    /\ UNCHANGED <<products, committed, nextBatchId, nextOrderId, conn>>

\* the locations of SpecAlloc, each Cold Storage location with no reading yet
\* or with a reading and the hour it was logged
TempInit ==
    /\ products = Catalogue
    /\ \E reading2 \in TempReadings \cup {<<>>}, reading3 \in TempReadings \cup {<<>>},
          update2 \in UpdateTimes, update3 \in UpdateTimes :
           locations =
               [l \in LocIds |->
                   LET loc == AllocLocations(reading2, reading3)[l]
                       at == IF l = 2 THEN update2 ELSE update3
                   IN  IF IsNull(loc.latest_temperature) THEN loc
                       ELSE [loc EXCEPT !.last_temp_update = <<at>>]]
    /\ batches = EmptyFn
    /\ picks = {}
    /\ orders = EmptyFn
    /\ order_items = {}
    /\ temperature_logs = <<>>
    /\ dispatches = {}
    /\ nextBatchId = 1
    /\ nextOrderId = 1
    /\ conn = [r \in Conns |-> Idle]
    /\ response = {}

TempNext == \E now \in Nows : GetTemperatureAlerts(now)

SpecTemp == TempInit /\ [][TempNext]_vars

\* ---- SpecLog: temperature readings logged on concurrent connections ----
\* the location ids of the requests: the locations and one that does not exist
LogLocIds == LocIds \cup {4}

\* the readings of the requests; <<>> is a body without a valid reading
LogReadings == {<<>>, <<0 - 1>>, <<3>>}

LogTimes == 0..2

\* no stored timestamp lies ahead of the clock at hour now
ClockAt(now) ==
    /\ \A l \in DOMAIN locations :
          IF IsNull(locations[l].last_temp_update) THEN TRUE
          ELSE locations[l].last_temp_update[1] <= now
    /\ \A i \in 1..Len(temperature_logs) : temperature_logs[i].timestamp <= now
    /\ \A r \in Conns :
          IF conn[r].pc = "log_update" THEN conn[r].req.now <= now ELSE TRUE

\* ReferencedLocation with no foreign key on temperature_logs.location_id
NoForeignKey(locs, location_id) == TRUE

\* FOREIGN KEY (location_id) REFERENCES storage_locations(location_id)
ReferencedLocation(locs, location_id) == location_id \in DOMAIN locs

\* INSERT INTO temperature_logs (location_id, temperature_reading, timestamp)
\* VALUES (?, ?, NOW())
LogInsert(logs, log_id, location_id, temperature_reading, now) ==
    Append(logs, [log_id |-> log_id,
                  location_id |-> location_id,
                  temperature_reading |-> temperature_reading,
                  timestamp |-> now])

\* UPDATE storage_locations SET latest_temperature = ?, last_temp_update = NOW()
\* WHERE location_id = ?
ReadingUpdate(locs, location_id, temperature_reading, now) ==
    [l \in DOMAIN locs |->
        IF l = location_id
        THEN [locs[l] EXCEPT !.latest_temperature = <<temperature_reading>>,
                             !.last_temp_update = <<now>>]
        ELSE locs[l]]

\* SharersOf when the foreign key check of the INSERT takes no lock
NoSharers(r) == {}

\* the connections whose pending INSERT holds the shared lock of the foreign
\* key check on the row of the location that r is about to update
SharersOf(r) ==
    {r2 \in Conns \ {r} : /\ conn[r2].pc = "log_update"
                            /\ conn[r2].req.location_id = conn[r].req.location_id}

\* AUTO_INCREMENT of temperature_logs.log_id: above the log_id of every row,
\* committed or pending (a value a rolled back INSERT drew is not told apart
\* from the next one, the order of the values of the rows that exist is kept)
NextLogId ==
    LET used == {temperature_logs[i].log_id : i \in 1..Len(temperature_logs)}
                \cup {conn[r].req.log_id : r \in {r2 \in Conns : conn[r2].pc = "log_update"}}
    IN  IF used = {} THEN 1 ELSE 1 + CHOOSE m \in used : \A x \in used : x <= m

\* POST /temperature_logs: the check of the body, beginTransaction and the
\* INSERT, which draws the log_id and fails when the location does not exist
LogBegin(r, location_id, reading, now) ==
    /\ conn[r].pc = "idle"
    /\ ClockAt(now)
    /\ Len(temperature_logs) + Cardinality({r2 \in Conns : conn[r2].pc = "log_update"})
           < MaxLogs
    /\ NextLogId <= MaxLogs + 1
    /\ IF location_id = 0 \/ reading = <<>>
       THEN response' = "Validation" /\ UNCHANGED conn
       ELSE IF ~ReferencedLocation(locations, location_id)
       THEN response' = "ForeignKey" /\ UNCHANGED conn
       ELSE /\ conn' = [conn EXCEPT ![r] =
                           [Idle EXCEPT !.pc = "log_update",
                                        !.req = [op |-> "logTemperature",
                                                 log_id |-> NextLogId,
                                                 location_id |-> location_id,
                                                 temperature_reading |-> reading[1],
                                                 now |-> now]]]
            /\ UNCHANGED response
    /\ UNCHANGED <<products, committed, nextBatchId, nextOrderId>>

\* POST /temperature_logs: the UPDATE, which waits while another transaction
\* shares the lock on the row, and the COMMIT
LogUpdate(r, now) ==
    /\ conn[r].pc = "log_update"
    /\ SharersOf(r) = {}
    /\ ClockAt(now)
    /\ temperature_logs' = LogInsert(temperature_logs, conn[r].req.log_id,
                                     conn[r].req.location_id,
                                     conn[r].req.temperature_reading, conn[r].req.now)
    /\ locations' = ReadingUpdate(locations, conn[r].req.location_id,
                                  conn[r].req.temperature_reading, now)
    /\ response' = "ok"
    /\ conn' = [conn EXCEPT ![r] = Idle]
    /\ UNCHANGED <<products, batches, picks, orders, order_items, dispatches,
                   nextBatchId, nextOrderId>>

\* POST /temperature_logs: two transactions share the lock on the row and
\* each waits for the other to update it; the server rolls one back
LogDeadlock(r) ==
    /\ conn[r].pc = "log_update"
    /\ SharersOf(r) # {}
    /\ response' = "Deadlock"
    /\ conn' = [conn EXCEPT ![r] = Idle]
    /\ UNCHANGED <<products, committed, nextBatchId, nextOrderId>>

LogNext ==
    \E r \in Conns :
        \/ \E l \in LogLocIds \cup {0}, t \in LogReadings, now \in LogTimes :
               LogBegin(r, l, t, now)
        \/ \E now \in LogTimes : LogUpdate(r, now)
        \/ LogDeadlock(r)

SpecLog == Init /\ [][LogNext]_vars

\* ---- SpecAlerts: the expiry and low-stock alerts, with writers between ----
LOW_STOCK_THRESHOLD == 10

\* intake and order quantities below, at and above the threshold
AlertQuantities == {1, LOW_STOCK_THRESHOLD, LOW_STOCK_THRESHOLD + 1}

\* CURDATE() of the first query: the window of 30 days ends before the expiry
\* dates, on the first of them, or holds both; the expiry dates have passed
AlertDays == {0 - ExpiringSoonDays, 1 - ExpiringSoonDays, 1, 2, 3}

\* two Ambient locations that hold the largest intake, and a Cold Storage one
AlertLocations ==
    [l \in LocIds |->
        IF l = 3 THEN Location("Cold Storage", 1, <<2>>, <<8>>, <<>>)
        ELSE Location("Ambient", LOW_STOCK_THRESHOLD + 1, <<>>, <<>>, <<>>)]

\* the columns of a row of the alert lists
AlertRow(db, b) ==
    [batch_id |-> b, quantity |-> db.batches[b].quantity,
     expiry_date |-> db.batches[b].expiry_date]

\* FROM batches b JOIN products p ON b.product_id = p.product_id
JoinedBatches(db) == {b \in DOMAIN db.batches : db.batches[b].product_id \in DOMAIN db.products}

\* ExpiredBatches without the test of the quantity
ExpiredAnyQuantity(db, today) ==
    {b \in JoinedBatches(db) : /\ db.batches[b].expiry_date < today
                               /\ db.batches[b].status = "Available"}

\* WHERE b.expiry_date < CURDATE() AND b.quantity > 0 AND b.status = 'Available'
ExpiredBatches(db, today) ==
    {b \in JoinedBatches(db) : /\ db.batches[b].expiry_date < today
                               /\ db.batches[b].quantity > 0
                               /\ db.batches[b].status = "Available"}

\* WHERE b.expiry_date >= CURDATE()
\*   AND b.expiry_date <= DATE_ADD(CURDATE(), INTERVAL 30 DAY)
\*   AND b.quantity > 0 AND b.status = 'Available'
ExpiringSoonBatches(db, today) ==
    {b \in JoinedBatches(db) : /\ db.batches[b].expiry_date >= today
                               /\ db.batches[b].expiry_date <= today + ExpiringSoonDays
                               /\ db.batches[b].quantity > 0
                               /\ db.batches[b].status = "Available"}

\* LowStockBatches with the empty batches among them
LowStockFromZero(db) ==
    {b \in JoinedBatches(db) : /\ db.batches[b].quantity >= 0
                               /\ db.batches[b].quantity <= LOW_STOCK_THRESHOLD
                               /\ db.batches[b].status = "Available"}

\* WHERE b.quantity > 0 AND b.quantity <= ? AND b.status = 'Available'
LowStockBatches(db) ==
    {b \in JoinedBatches(db) : /\ db.batches[b].quantity > 0
                               /\ db.batches[b].quantity <= LOW_STOCK_THRESHOLD
                               /\ db.batches[b].status = "Available"}

\* WHERE b.quantity <= 0 AND b.status = 'Available'
OutOfStockBatches(db) ==
    {b \in JoinedBatches(db) : /\ db.batches[b].quantity <= 0
                               /\ db.batches[b].status = "Available"}

\* ORDER BY b.<column> ASC: the rows of bs in every order the sort may return,
\* rows with equal values of the column in any order
OrderedAscending(db, bs, column) ==
    {[i \in 1..Len(s) |-> AlertRow(db, s[i])] :
        s \in {q \in Perms(bs) :
                  \A i \in 1..Len(q), j \in 1..Len(q) :
                      i < j => db.batches[q[i]][column] <= db.batches[q[j]][column]}}

\* GET /alerts/expiry, first query
ExpiredQuery(r, today) ==
    /\ conn[r].pc \in {"idle", "alerted"}
    /\ conn' = [conn EXCEPT ![r] =
                  [Idle EXCEPT !.req = [op |-> "getExpiryAlerts"],
                               !.pc = "expiring_soon",
                               !.local.today = today,
                               !.local.alerts.expired =
                                   {AlertRow(Db, b) : b \in ExpiredBatches(Db, today)}]]
    /\ UNCHANGED <<products, committed, nextBatchId, nextOrderId, response>>

\* GET /alerts/expiry, second query and res.json({ expired, expiringSoon });
\* its CURDATE() is the day of the first query or, past midnight, the next
ExpiringSoonQuery(r, today) ==
    /\ conn[r].pc = "expiring_soon"
    /\ today \in {conn[r].local.today, conn[r].local.today + 1}
    /\ \E rows \in OrderedAscending(Db, ExpiringSoonBatches(Db, today), "expiry_date") :
           conn' = [conn EXCEPT ![r] = [@ EXCEPT !.pc = "alerted",
                                                 !.local.alerts.expiringSoon = rows]]
    /\ UNCHANGED <<products, committed, nextBatchId, nextOrderId, response>>

\* GET /alerts/low_stock, first query
LowStockQuery(r) ==
    /\ conn[r].pc \in {"idle", "alerted"}
    /\ \E rows \in OrderedAscending(Db, LowStockBatches(Db), "quantity") :
           conn' = [conn EXCEPT ![r] =
                      [Idle EXCEPT !.req = [op |-> "getLowStockAlerts"],
                                   !.pc = "out_of_stock",
                                   !.local.alerts.lowStock = rows]]
    /\ UNCHANGED <<products, committed, nextBatchId, nextOrderId, response>>

\* GET /alerts/low_stock, second query and res.json({ lowStock, outOfStock })
OutOfStockQuery(r) ==
    /\ conn[r].pc = "out_of_stock"
    /\ conn' = [conn EXCEPT ![r] =
                  [@ EXCEPT !.pc = "alerted",
                            !.local.alerts.outOfStock =
                                {AlertRow(Db, b) : b \in OutOfStockBatches(Db)}]]
    /\ UNCHANGED <<products, committed, nextBatchId, nextOrderId, response>>

AlertInit == products = Catalogue /\ locations = AlertLocations /\ InitRest

AlertNext ==
    \/ \E e \in Dates, q \in AlertQuantities : CreateBatch(1, e, q)
    \/ \E q \in AlertQuantities : CreateOrder(<<[product_id |-> 1, quantity |-> q]>>)
    \/ \E id \in DOMAIN batches, e \in Dates, st \in Statuses :
           UpdateBatch(id, batches[id].product_id, e, batches[id].quantity, st)
    \/ \E d \in AlertDays : ExpiredQuery(Reader, d)
    \/ \E d \in AlertDays \cup {d + 1 : d \in AlertDays} : ExpiringSoonQuery(Reader, d)
    \/ LowStockQuery(Reader)
    \/ OutOfStockQuery(Reader)

SpecAlerts == AlertInit /\ [][AlertNext]_vars

\* ---- SpecIntake: concurrent intakes, the allocator's SELECT a step of its own ----
\* IntakeSelected with the row of the location locked (SELECT ... FOR UPDATE)
IntakeSelectedForUpdate(t, loc) ==
    [t EXCEPT !.pc = "insert_batch", !.local.suitableLocation = loc, !.tx.ll = @ \cup {loc}]

\* const suitableLocation = await findSuitableLocation(...): a plain SELECT,
\* no row is locked
IntakeSelected(t, loc) ==
    [t EXCEPT !.pc = "insert_batch", !.local.suitableLocation = loc]

\* the connections other than r with the exclusive lock on the row of location l
ExclusiveOn(r, l) == {r2 \in Conns \ {r} : l \in conn[r2].tx.ll}

\* the connections other than r whose INSERT INTO batches holds the shared lock
\* of the foreign key check on the row of location l and has not updated it
SharedOn(r, l) ==
    {r2 \in Conns \ {r} : /\ conn[r2].pc = "incr_occ"
                            /\ conn[r2].local.suitableLocation = l}

\* POST /batches: the check of the body, beginTransaction and
\* findSuitableLocation, which reads the committed rows.  The requests in
\* flight carry different batch numbers.
IntakeSelect(r, product_id, batch_number, quantity) ==
    LET reqv == [op |-> "createBatch", product_id |-> product_id,
                 batch_number |-> batch_number, barcode |-> 0,
                 expiry_date |-> 1, quantity |-> quantity]
    IN  /\ conn[r].pc = "idle"
        /\ Valid(reqv)
        /\ \A r2 \in Conns : conn[r2].pc # "idle" => conn[r2].req.batch_number # batch_number
        /\ nextBatchId + Cardinality({r2 \in Conns : conn[r2].pc = "insert_batch"})
              <= MaxBatches
        /\ \E loc \in findSuitableLocation(Db, product_id, quantity) :
              conn' = [conn EXCEPT ![r] =
                         IF loc < 0 THEN Fail(Start(reqv), "Internal")
                         ELSE IF loc = 0 THEN Fail(Start(reqv), "NoSuitableLocation")
                         ELSE IntakeSelected(Start(reqv), loc)]
        /\ UNCHANGED <<products, committed, nextBatchId, nextOrderId, response>>

\* POST /batches: INSERT INTO batches; the foreign key check waits while the
\* row of the location is locked exclusively by another transaction
IntakeInsert(r) ==
    LET t == conn[r]
        code == BarcodeOf(t.req.barcode, t.req.batch_number)
        key == DuplicateKey(ViewBatches(Db, t.tx), t.req.batch_number, code)
    IN  /\ t.pc = "insert_batch"
        /\ ExclusiveOn(r, t.local.suitableLocation) = {}
        /\ conn' = [conn EXCEPT ![r] =
                      IF key = "batches.batch_number" THEN Fail(t, "DuplicateBatchNumber")
                      ELSE IF key = "batches.barcode" THEN Fail(t, "DuplicateEntry")
                      ELSE [t EXCEPT
                              !.pc = "incr_occ",
                              !.local.newBatchId = nextBatchId,
                              !.tx.wb = (nextBatchId :>
                                            [product_id |-> t.req.product_id,
                                             batch_number |-> t.req.batch_number,
                                             expiry_date |-> t.req.expiry_date,
                                             quantity |-> t.req.quantity,
                                             barcode |-> code,
                                             assigned_location_id |-> t.local.suitableLocation,
                                             status |-> "Available"]) @@ @,
                              !.tx.lb = @ \cup {nextBatchId}]]
        /\ nextBatchId' = nextBatchId + 1
        /\ UNCHANGED <<products, committed, nextOrderId, response>>

\* POST /batches: UPDATE storage_locations SET current_occupancy =
\* current_occupancy + ?; it waits while another transaction holds a lock on
\* the row
IntakeOccupancy(r) ==
    /\ conn[r].pc = "incr_occ"
    /\ ExclusiveOn(r, conn[r].local.suitableLocation) = {}
    /\ SharedOn(r, conn[r].local.suitableLocation) = {}
    /\ \E t \in CreateBatchOccupancy(Db, conn[r]) : conn' = [conn EXCEPT ![r] = t]
    /\ UNCHANGED <<products, committed, nextBatchId, nextOrderId, response>>

\* two intakes share the lock on the row and each waits to update it: the
\* server ends one of them with ER_LOCK_DEADLOCK
IntakeDeadlock(r) ==
    /\ conn[r].pc = "incr_occ"
    /\ SharedOn(r, conn[r].local.suitableLocation) # {}
    /\ conn' = [conn EXCEPT ![r] = Fail(@, "Deadlock")]
    /\ UNCHANGED <<products, committed, nextBatchId, nextOrderId, response>>

IntakeNext ==
    \E r \in Conns :
        \/ \E n \in BatchNumbers, q \in Quantities : IntakeSelect(r, 1, n, q)
        \/ IntakeInsert(r)
        \/ IntakeOccupancy(r)
        \/ IntakeDeadlock(r)
        \/ Commit(r)
        \/ Rollback(r)

SpecIntake == Init /\ [][IntakeNext]_vars

\* ---- SpecLock: handlers contending for the rows of two batches, run fairly ----
\* batch 1 of product 1 on the Ambient location, batch 2 of product 2 on a
\* Cold Storage location, 2 units each
LockInit ==
    /\ products = Catalogue
    /\ batches = [b \in BatchIds |->
                    [product_id |-> b, batch_number |-> b, expiry_date |-> 1,
                     quantity |-> 2, barcode |-> b,
                     assigned_location_id |-> b, status |-> "Available"]]
    /\ locations = [l \in LocIds |->
                      IF l \in BatchIds
                      THEN [InitLocations[l] EXCEPT !.current_occupancy = 2]
                      ELSE InitLocations[l]]
    /\ picks = {}
    /\ orders = EmptyFn
    /\ order_items = {}
    /\ temperature_logs = <<>>
    /\ dispatches = {}
    /\ nextBatchId = MaxBatches + 1
    /\ nextOrderId = 1
    /\ conn = [r \in Conns |-> Idle]
    /\ response = "none"

\* orders for one unit of each product, in either item order
LockItems ==
    {<<[product_id |-> p1, quantity |-> 1], [product_id |-> p2, quantity |-> 1]>> :
        p1 \in Products, p2 \in Products} \ {<<[product_id |-> p, quantity |-> 1],
                                                [product_id |-> p, quantity |-> 1]>> :
                                                  p \in Products}

\* one order per connection
LockOrder(r, items) ==
    /\ nextOrderId <= NumConn
    /\ Begin(r, [op |-> "createOrder", items |-> items])

\* one intake of a unit of the Ambient product after the two batches in stock
LockCreateBatch(r) ==
    /\ nextBatchId <= MaxBatches + 1
    /\ Begin(r, [op |-> "createBatch", product_id |-> 1, batch_number |-> nextBatchId,
                 barcode |-> 0, expiry_date |-> 1, quantity |-> 1])

\* the statements a handler that has begun runs, COMMIT or ROLLBACK last
LockProgress(r) ==
    \/ TxnOccupancy(r)
    \/ TxnOrderItem(r)
    \/ TxnOrderPick(r)
    \/ Commit(r)
    \/ Rollback(r)

LockNext ==
    \E r \in Conns :
        \/ \E items \in LockItems : LockOrder(r, items)
        \/ LockCreateBatch(r)
        \/ \E id \in DOMAIN batches :
               TxnUpdateBatch(r, id, batches[id].product_id, batches[id].expiry_date,
                              MaxQty, batches[id].status)
        \/ \E id \in DOMAIN batches : TxnDeleteBatch(r, id)
        \/ LockProgress(r)
        \/ DeadlockVictim(r)

\* Node runs every handler that awaits the server on; the server grants a
\* released row lock to the transaction waiting for it (strong fairness of
\* the statements, which wait for locks) and ends a lock-wait cycle as soon
\* as it has formed.  Requests arrive as they will: no fairness for them.
LockFairness ==
    \A r \in Conns : SF_vars(LockProgress(r)) /\ WF_vars(DeadlockVictim(r))

SpecLock == LockInit /\ [][LockNext]_vars /\ LockFairness

\* ---- SpecEdit: edits of batches with and without a location, and an order ----
\* batch 1 on the Ambient location, batch 2 of the same product, expiring
\* later, with assigned_location_id NULL (the column is nullable)
EditInit ==
    /\ products = Catalogue
    /\ batches = [b \in BatchIds |->
                    [product_id |-> 1, batch_number |-> b, expiry_date |-> b,
                     quantity |-> MaxQty, barcode |-> b,
                     assigned_location_id |-> IF b = 1 THEN 1 ELSE 0,
                     status |-> "Available"]]
    /\ locations = [InitLocations EXCEPT ![1].current_occupancy = MaxQty]
    /\ picks = {}
    /\ orders = EmptyFn
    /\ order_items = {}
    /\ temperature_logs = <<>>
    /\ dispatches = {}
    /\ nextBatchId = MaxBatches + 1
    /\ nextOrderId = 1
    /\ conn = [r \in Conns |-> Idle]
    /\ response = "none"

\* item lists of requests with an item that has no product or no quantity
InvalidItemLists ==
    {items \in UNION {[1..n -> [product_id : {0, 1}, quantity : {0, 1}]] : n \in 1..MaxItems} :
        \E i \in 1..Len(items) : items[i].product_id = 0 \/ items[i].quantity = 0}

EditNext ==
    \E r \in Conns :
        \/ \E id \in DOMAIN batches, q \in 0..MaxQty :
               TxnUpdateBatch(r, id, batches[id].product_id, batches[id].expiry_date,
                              q, batches[id].status)
        \/ \E q \in 1..(2 * MaxQty) :
               TxnCreateOrder(r, <<[product_id |-> 1, quantity |-> q]>>)
        \/ \E items \in InvalidItemLists : TxnCreateOrder(r, items)
        \/ TxnOccupancy(r)
        \/ TxnOrderItem(r)
        \/ TxnOrderPick(r)
        \/ Commit(r)
        \/ Rollback(r)

SpecEdit == EditInit /\ [][EditNext]_vars

\* ---- SpecStatus: the status setters and the dispatch record, after orders ----
\* the names and the days of the dispatch requests; "" and 0 are a missing field
Dispatchers == {"", "clerk"}

DispatchDates == {0, 1}

\* POST /dispatches, one autocommitted INSERT: the check of the body, the
\* foreign key to orders and the unique index on order_id; dispatch_id is not
\* kept, order_id identifies the row
RecordDispatch(order_id, dispatched_by, dispatch_date) ==
    /\ IF order_id = 0 \/ dispatched_by = "" \/ dispatch_date = 0
       THEN response' = "Validation" /\ UNCHANGED dispatches
       ELSE IF order_id \notin DOMAIN orders
       THEN response' = "ForeignKey" /\ UNCHANGED dispatches
       ELSE IF \E d \in dispatches : d.order_id = order_id
       THEN response' = "Duplicate" /\ UNCHANGED dispatches
       ELSE /\ dispatches' = dispatches \cup {[order_id |-> order_id,
                                              dispatched_by |-> dispatched_by,
                                              dispatch_date |-> dispatch_date]}
            /\ response' = "ok"
    /\ UNCHANGED <<products, locations, batches, picks, orders, order_items, temperature_logs,
                   nextBatchId, nextOrderId, conn>>

StatusNext ==
    \/ \E e \in Dates, q \in Quantities : CreateBatch(1, e, q)
    \/ \E q \in Quantities : CreateOrder(<<[product_id |-> 1, quantity |-> q]>>)
    \/ \E o \in 1..MaxOrders + 1, st \in OrderStatuses \cup {"Unknown"} : SetOrderStatus(o, st)
    \/ \E o \in 1..MaxOrders, b \in BatchIds, st \in PickStatuses \cup {"Unknown"} :
           SetPickStatus(o, b, st)
    \/ \E o \in 0..MaxOrders + 1, by \in Dispatchers, d \in DispatchDates :
           RecordDispatch(o, by, d)

SpecStatus == Init /\ [][StatusNext]_vars

\* ---- SpecProduct: edits that name another product for the batch ----
ProductNext ==
    \/ \E p \in Products, e \in Dates, q \in Quantities : CreateBatch(p, e, q)
    \/ \E id \in DOMAIN batches, p \in Products, q \in 0..MaxQty :
           UpdateBatch(id, p, batches[id].expiry_date, q, batches[id].status)
    \/ \E id \in DOMAIN batches : DeleteBatch(id)

SpecProduct == Init /\ [][ProductNext]_vars

\* ---- SpecRace: orders racing for the stock of one batch ----
RECURSIVE SumPicked(_)
SumPicked(ps) ==
    IF ps = {} THEN 0
    ELSE LET p == CHOOSE x \in ps : TRUE IN p.quantity_picked + SumPicked(ps \ {p})

\* batch 1 of product 1 is the only stock, q units on the Ambient location
RaceInit ==
    /\ products = Catalogue
    /\ \E e \in Dates, q \in 1..InitLocations[1].capacity :
        /\ batches = (1 :> [product_id |-> 1, batch_number |-> 1, expiry_date |-> e,
                            quantity |-> q, barcode |-> 1,
                            assigned_location_id |-> 1, status |-> "Available"])
        /\ locations = [InitLocations EXCEPT ![1].current_occupancy = q]
    /\ picks = {}
    /\ orders = EmptyFn
    /\ order_items = {}
    /\ temperature_logs = <<>>
    /\ dispatches = {}
    /\ nextBatchId = 2
    /\ nextOrderId = 1
    /\ conn = [r \in Conns |-> Idle]
    /\ response = "none"

\* the stock the batch started with: what it holds plus what was picked from it
RaceStock == batches[1].quantity + SumPicked(picks)

\* one request per connection, each for a quantity the stock covers once but
\* not twice
RaceOrder(r, quantity) ==
    /\ nextOrderId <= NumConn
    /\ quantity <= RaceStock
    /\ RaceStock < 2 * quantity
    /\ Begin(r, [op |-> "createOrder",
                 items |-> <<[product_id |-> 1, quantity |-> quantity]>>])

RaceNext ==
    \E r \in Conns :
        \/ \E quantity \in 1..InitLocations[1].capacity : RaceOrder(r, quantity)
        \/ TxnOccupancy(r)
        \/ TxnOrderItem(r)
        \/ TxnOrderPick(r)
        \/ Commit(r)
        \/ Rollback(r)

SpecRace == RaceInit /\ [][RaceNext]_vars

\* ---- properties ----
RECURSIVE SumQuantity(_, _)
SumQuantity(rows, ids) ==
    IF ids = {} THEN 0
    ELSE LET b == CHOOSE x \in ids : TRUE IN rows[b].quantity + SumQuantity(rows, ids \ {b})

\* the batches assigned to location l, and the quantity they hold together
StoredAt(rows, l) == {b \in DOMAIN rows : rows[b].assigned_location_id = l}

Contents(rows, l) == SumQuantity(rows, StoredAt(rows, l))

\* C1: after any sequence of createBatch, createOrder, updateBatch and
\* deleteBatch, every location's current_occupancy equals the sum of the
\* quantities of the batches assigned to it.
C1_OccupancyIsSumOfBatches ==
    \A l \in DOMAIN locations :
        locations[l].current_occupancy = Contents(batches, l)

\* a location holds stock after intakes, an order's pick and a deletion
C1_Witness ==
    /\ \E l \in DOMAIN locations : locations[l].current_occupancy > 0
    /\ picks # {}
    /\ Cardinality(DOMAIN batches) < nextBatchId - 1

\* C2: no operation, updateBatch raising a quantity included, leaves a
\* location with current_occupancy above its capacity.
C2_OccupancyWithinCapacity ==
    \A l \in DOMAIN locations :
        locations[l].current_occupancy <= locations[l].capacity

\* every request of the race has been served
RaceDone == nextOrderId > NumConn /\ \A r \in Conns : conn[r].pc = "idle"

\* C3: of the concurrent createOrder requests on a single batch, each for a
\* quantity the stock covers once but not twice (10 in stock, 6 requested by
\* each), exactly one commits, with a pick of the quantity it requested; the
\* others fail with InsufficientStock; never do two succeed and never does
\* the batch quantity go negative.
C3_OneOrderWinsTheRace ==
    /\ batches[1].quantity >= 0
    /\ \A r \in Conns : \A b \in DOMAIN conn[r].tx.wb : conn[r].tx.wb[b].quantity >= 0
    /\ Cardinality(DOMAIN orders) <= 1
    /\ \A r \in Conns : conn[r].pc = "rollback" => conn[r].local.err = "InsufficientStock"
    /\ RaceDone =>
          /\ response = "InsufficientStock"
          /\ \E o \in DOMAIN orders : \E i \in order_items :
                /\ i.order_id = o
                /\ picks = {[pick_id |-> <<o, 1>>, order_id |-> o, batch_id |-> 1,
                             quantity_picked |-> i.quantity, status |-> "Pending Pick"]}
                /\ batches[1].quantity = RaceStock - i.quantity
                /\ locations[1].current_occupancy = batches[1].quantity

\* the race is over and the batch keeps stock that was too little for the loser
C3_Witness ==
    /\ RaceDone
    /\ Cardinality(DOMAIN orders) = 1
    /\ batches[1].quantity > 0

\* C4: a createOrder that fails with InsufficientStock leaves batch
\* quantities, location occupancies and picks as they were before it started,
\* the depletion done for earlier items of the order included.
C4_FailedOrderChangesNothing ==
    [][response' = "InsufficientStock" => UNCHANGED <<batches, locations, picks>>]_vars

\* createOrder runs that fail at their second item with picks of the first pending
FailsAfterDepleting ==
    {t \in UNION {RunToEnd(Db, Start([op |-> "createOrder", items |-> items])) :
                     items \in ItemLists} :
        /\ t.pc = "rollback"
        /\ t.local.err = "InsufficientStock"
        /\ t.local.item = 2
        /\ t.tx.ip # {}}

\* an order was refused for lack of stock in a state where an order's second
\* item fails after its first item has depleted a batch
C4_Witness ==
    /\ response = "InsufficientStock"
    /\ picks = {}
    /\ FailsAfterDepleting # {}

\* C5: createOrder consumes the Available batches of a product in ascending
\* expiry order, taking all of a batch before it picks from a later-expiring
\* one (batches of 5 and 5, order of 7: 5 from the earlier, 2 from the later).
C5_FirstExpiredFirstOut ==
    [][\A p \in picks' \ picks : \A b \in DOMAIN batches :
          (/\ batches[b].product_id = batches[p.batch_id].product_id
           /\ batches[b].status = "Available"
           /\ batches[b].quantity > 0
           /\ batches[b].expiry_date < batches[p.batch_id].expiry_date)
          => /\ b \in DOMAIN batches'
             /\ batches'[b].quantity = 0
             /\ \E q \in picks' :
                   /\ q.order_id = p.order_id /\ q.batch_id = b
                   /\ q.quantity_picked = batches[b].quantity
                   /\ q.status = "Pending Pick"]_vars

\* an order holds picks on two batches of a product: the earlier-expiring one
\* is used up, the later-expiring one keeps stock
C5_Witness ==
    \E p1 \in picks, p2 \in picks :
        /\ p1.order_id = p2.order_id
        /\ p1.batch_id \in DOMAIN batches
        /\ p2.batch_id \in DOMAIN batches
        /\ batches[p1.batch_id].product_id = batches[p2.batch_id].product_id
        /\ batches[p1.batch_id].expiry_date < batches[p2.batch_id].expiry_date
        /\ batches[p1.batch_id].quantity = 0
        /\ batches[p2.batch_id].quantity > 0

\* the reading of a location lies within its range, as numbers
ReadingInRange(loc) ==
    /\ loc.min_temp[1] <= loc.latest_temperature[1]
    /\ loc.latest_temperature[1] <= loc.max_temp[1]

\* a location the allocator may give a Cold Storage batch of quantityNeeded
EligibleCold(loc, quantityNeeded) ==
    /\ loc.location_type = "Cold Storage"
    /\ loc.current_occupancy + quantityNeeded <= loc.capacity
    /\ (IsNull(loc.latest_temperature) \/ ReadingInRange(loc))

\* C6: for a Cold Storage product the allocator never selects a location whose
\* latest_temperature is non-null and outside [min_temp, max_temp], and it
\* returns a location whenever one with enough free capacity and a null or
\* in-range reading exists.
C6_ColdAllocationFollowsReadings ==
    \A p \in DOMAIN products : \A q \in Quantities :
        products[p].category = "Cold Storage" =>
            \A l \in findSuitableLocation(Db, p, q) :
                /\ l > 0 => \/ IsNull(locations[l].latest_temperature)
                            \/ ReadingInRange(locations[l])
                /\ l = 0 => \A l2 \in DOMAIN locations : ~EligibleCold(locations[l2], q)

\* C7: a location the allocator returns has the location_type of the
\* product's category and current_occupancy + quantity <= capacity in the
\* state the allocator read.
C7_AllocationFitsTypeAndCapacity ==
    \A p \in DOMAIN products : \A q \in Quantities :
        \A l \in findSuitableLocation(Db, p, q) :
            l > 0 => /\ locations[l].location_type = products[p].category
                     /\ locations[l].current_occupancy + q <= locations[l].capacity

\* after an intake the allocator returns a location for a request that a
\* fuller location of the same type could not take
C7_Witness ==
    /\ batches # EmptyFn
    /\ \E p \in DOMAIN products : \E q \in Quantities :
        \E l \in findSuitableLocation(Db, p, q) :
            /\ l > 0
            /\ \E l2 \in DOMAIN locations :
                /\ locations[l2].location_type = products[p].category
                /\ locations[l2].current_occupancy > 0
                /\ locations[l2].current_occupancy + q > locations[l2].capacity

\* C8: no batch quantity is negative, committed or pending, under any
\* interleaving of createOrder, updateBatch and deleteBatch.
C8_QuantityNeverNegative ==
    /\ \A b \in DOMAIN batches : batches[b].quantity >= 0
    /\ \A r \in Conns : \A b \in DOMAIN conn[r].tx.wb : conn[r].tx.wb[b].quantity >= 0

\* an order with a pick pending while an updateBatch or deleteBatch of
\* another connection is in flight
C8_Witness ==
    \E r1 \in Conns, r2 \in Conns :
        /\ conn[r1].req.op = "createOrder"
        /\ conn[r1].tx.ip # {}
        /\ conn[r2].pc \in {"adjust_occ", "release_occ"}

\* C9: a successful deleteBatch of a batch of quantity q in location L removes
\* the batch and every pick that references it and lowers L's
\* current_occupancy by exactly q; no other location, batch or pick changes.
C9_DeleteRemovesBatchPicksAndOccupancy ==
    [][\A id \in BatchIds :
          DeleteBatch(id) /\ response' = "ok" =>
              /\ id \in DOMAIN batches
              /\ batches' = [b \in DOMAIN batches \ {id} |-> batches[b]]
              /\ picks' = {p \in picks : p.batch_id # id}
              /\ locations' =
                    [l \in DOMAIN locations |->
                        IF l = batches[id].assigned_location_id
                        THEN [locations[l] EXCEPT
                                 !.current_occupancy = @ - batches[id].quantity]
                        ELSE locations[l]]]_vars

\* an order is left without picks, its batch deleted, while other stock remains
C9_Witness ==
    /\ response = "ok"
    /\ DOMAIN orders # {}
    /\ picks = {}
    /\ \E b \in DOMAIN batches : batches[b].quantity > 0

\* what a request served on r while r stays free reads before and after a step
Reading(r) == conn[r].pc = "idle" /\ conn'[r].pc = "idle"

\* the change from old to new is that of whole operations: occupancy moves
\* with the batches, new picks with the depletion of their batch, a new order
\* with its items and picks
WholeOperations(old, new) ==
    /\ \A l \in DOMAIN old.locations :
           new.locations[l].current_occupancy - old.locations[l].current_occupancy
               = Contents(new.batches, l) - Contents(old.batches, l)
    /\ \A p \in new.picks \ old.picks :
           /\ p.order_id \in DOMAIN new.orders
           /\ p.batch_id \in DOMAIN new.batches
           /\ p.batch_id \in DOMAIN old.batches
    /\ \A b \in DOMAIN old.batches \cap DOMAIN new.batches :
           LET added == {p \in new.picks \ old.picks : p.batch_id = b}
           IN  added # {} =>
                   old.batches[b].quantity - new.batches[b].quantity = SumPicked(added)
    /\ \A o \in DOMAIN new.orders \ DOMAIN old.orders :
           /\ \E i \in new.order_items : i.order_id = o
           /\ \E p \in new.picks : p.order_id = o

RECURSIVE SumRequested(_)
SumRequested(is) ==
    IF is = {} THEN 0
    ELSE LET i == CHOOSE x \in is : TRUE IN i.quantity + SumRequested(is \ {i})

\* C11: when createOrder succeeds the order exists with status Pending, every
\* pick it created has status 'Pending Pick', the picks created for the items
\* of a product sum to the quantity requested for it, no pick exceeds what its
\* batch held, and each touched batch's quantity and its location's occupancy
\* are reduced by exactly the quantity picked.
C11_OrderCommitsItsPicks ==
    [][\A o \in DOMAIN orders' \ DOMAIN orders :
          LET created == picks' \ picks IN
          /\ orders'[o].status = "Pending"
          /\ picks \subseteq picks'
          /\ \A p \in created :
                /\ p.order_id = o
                /\ p.status = "Pending Pick"
                /\ p.batch_id \in DOMAIN batches
                /\ p.quantity_picked > 0
                /\ p.quantity_picked <= batches[p.batch_id].quantity
          /\ \A pr \in DOMAIN products :
                SumPicked({p \in created : batches[p.batch_id].product_id = pr})
                    = SumRequested({i \in order_items' :
                                       i.order_id = o /\ i.product_id = pr})
          /\ batches' =
                [b \in DOMAIN batches |->
                    [batches[b] EXCEPT
                        !.quantity = @ - SumPicked({p \in created : p.batch_id = b})]]
          /\ locations' =
                [l \in DOMAIN locations |->
                    [locations[l] EXCEPT
                        !.current_occupancy =
                            @ - SumPicked({p \in created :
                                    batches[p.batch_id].assigned_location_id = l})]]]_vars

\* an order for two products has committed with a pick for each
C11_Witness ==
    /\ response = "ok"
    /\ \E o \in DOMAIN orders : \E p1 \in picks, p2 \in picks :
        /\ p1.order_id = o
        /\ p2.order_id = o
        /\ p1.batch_id \in DOMAIN batches
        /\ p2.batch_id \in DOMAIN batches
        /\ batches[p1.batch_id].product_id # batches[p2.batch_id].product_id
        /\ Cardinality({i \in order_items : i.order_id = o}) = 2

\* C12 (as stated): no createOrder or updateBatch step raises the quantity of
\* a batch.
C12_QuantityNeverIncreases ==
    [][\A b \in DOMAIN batches \cap DOMAIN batches' :
          batches'[b].quantity <= batches[b].quantity]_vars

\* C12 (amended): createOrder only lowers a batch's quantity; any other change
\* of a batch's quantity is an updateBatch of that batch, which sets it to the
\* requested quantity, any value from 0 up, above the old one included.
C12_QuantityChangesByOrderOrEdit ==
    [][\A b \in DOMAIN batches \cap DOMAIN batches' :
          batches'[b].quantity # batches[b].quantity =>
              \/ /\ picks' # picks
                 /\ batches'[b].quantity < batches[b].quantity
              \/ \E q \in 0..MaxQty, st \in Statuses :
                    /\ UpdateBatch(b, batches[b].product_id,
                                   batches[b].expiry_date, q, st)
                    /\ response' = "ok"
                    /\ batches'[b].quantity = q]_vars

\* a batch that an order picked from holds, with what was picked, more than
\* any createBatch can bring: an updateBatch has raised its quantity
C12_Witness ==
    \E b \in DOMAIN batches :
        LET taken == {p \in picks : p.batch_id = b} IN
        /\ taken # {}
        /\ batches[b].quantity + SumPicked(taken) > MaxQty

\* C13: a batch's assigned_location_id is set once, by the createBatch that
\* inserts it, to a location the allocator returned for its product and
\* quantity, and no later operation changes it.
C13_LocationAssignedOnce ==
    [][/\ \A b \in DOMAIN batches \cap DOMAIN batches' :
             batches'[b].assigned_location_id = batches[b].assigned_location_id
       /\ \A b \in DOMAIN batches' \ DOMAIN batches :
             /\ batches'[b].assigned_location_id \in DOMAIN locations
             /\ batches'[b].assigned_location_id \in
                    findSuitableLocation(Db, batches'[b].product_id,
                                         batches'[b].quantity)]_vars

\* a batch still at its location after an order picked from it and an edit
\* changed its status and raised its quantity
C13_Witness ==
    \E b \in DOMAIN batches :
        /\ batches[b].assigned_location_id \in DOMAIN locations
        /\ batches[b].status = "Damaged"
        /\ \E p \in picks : p.batch_id = b
        /\ batches[b].quantity = MaxQty

\* C14: createOrder records an OrderItem for each requested item
\* unconditionally, and the record remains when the fulfillment of the order
\* fails: after a createOrder that answers InsufficientStock, the items it
\* requested are in order_items.
C14_OrderItemOutlivesFailure ==
    [][\A items \in ItemLists :
          (CreateOrder(items) /\ response' = "InsufficientStock") =>
              \A n \in 1..Len(items) :
                  \E i \in order_items' :
                      /\ i.item = n
                      /\ i.product_id = items[n].product_id
                      /\ i.quantity = items[n].quantity]_vars

\* C15: when the allocator finds no eligible location for the product and
\* quantity, createBatch fails with NoSuitableLocation and leaves every table
\* unchanged; no createBatch that answers NoSuitableLocation changes a table.
C15_NoLocationNoChange ==
    [][/\ \A p \in Products, e \in Dates, q \in Quantities :
             (CreateBatch(p, e, q) /\ findSuitableLocation(Db, p, q) = {0}) =>
                 response' = "NoSuitableLocation"
       /\ response' = "NoSuitableLocation" =>
             UNCHANGED <<committed, nextBatchId, nextOrderId>>]_vars

\* a createBatch was refused for lack of a location while another batch is
\* stored and a Cold Storage location with free capacity stands by
C15_Witness ==
    /\ response = "NoSuitableLocation"
    /\ batches # EmptyFn
    /\ \E l \in DOMAIN locations :
        /\ locations[l].location_type = "Cold Storage"
        /\ locations[l].current_occupancy < locations[l].capacity

\* C17: updateBatch and deleteBatch on an id that names no batch fail with
\* NotFound and change nothing.
C17_MissingIdChangesNothing ==
    [][\A id \in BatchIds \ DOMAIN batches :
          (\/ DeleteBatch(id)
           \/ \E p \in Products, e \in Dates, q \in 0..MaxQty, st \in Statuses :
                  UpdateBatch(id, p, e, q, st)) =>
              /\ response' = "NotFound"
              /\ UNCHANGED <<committed, nextBatchId, nextOrderId>>]_vars

\* an id of a deleted batch was named again while other stock and picks exist
C17_Witness ==
    /\ response = "NotFound"
    /\ \E id \in BatchIds \ DOMAIN batches : id < nextBatchId
    /\ batches # EmptyFn
    /\ picks # {}

\* C16: a createBatch whose batch_number or barcode (the batch number when
\* the request has no barcode) is already that of a batch, and for which the
\* allocator has chosen a location, fails with a duplicate-key error and
\* leaves every table unchanged: the chosen location's current_occupancy is
\* not incremented.
C16_DuplicateKeyChangesNothing ==
    [][\A p \in Products, n \in BatchNumbers, c \in BatchNumbers \cup {0},
         e \in Dates, q \in Quantities :
          (/\ CreateBatchNumbered(p, n, c, e, q)
           /\ findSuitableLocation(Db, p, q) # {0}
           /\ \E b \in DOMAIN batches :
                 \/ batches[b].batch_number = n
                 \/ batches[b].barcode = IF c = 0 THEN n ELSE c) =>
              /\ response' \in {"DuplicateBatchNumber", "DuplicateEntry"}
              /\ response' = "DuplicateBatchNumber" <=>
                     \E b \in DOMAIN batches : batches[b].batch_number = n
              /\ UNCHANGED committed]_vars

\* a request with a new batch number was refused for its barcode, the batch
\* number of a stored batch, while its location had room for it
C16_Witness ==
    /\ response = "DuplicateEntry"
    /\ \E b \in DOMAIN batches :
        /\ batches[b].barcode = batches[b].batch_number
        /\ LET l == batches[b].assigned_location_id IN
           locations[l].current_occupancy = batches[b].quantity
    /\ nextBatchId = 3

\* C18: verifyBarcode on a barcode that matches no batch answers isValid =
\* false with the single message 'Barcode not found.', whatever the day and
\* however often it is asked, and no step of a verification changes a batch,
\* a pick, an order or a location.
C18_VerifyOnlyReads ==
    [][conn' # conn =>
       /\ \A c \in BatchNumbers \cup {MaxBatches + 1}, d \in Todays :
             VerifyBatchQuery(Reader, c, d) =>
                 /\ UNCHANGED <<products, committed, nextBatchId, nextOrderId>>
                 /\ (\A b \in DOMAIN batches : batches[b].barcode # c) =>
                        /\ conn'[Reader].pc = "verified"
                        /\ conn'[Reader].local.verificationResult.isValid = FALSE
                        /\ conn'[Reader].local.verificationResult.messages
                               = <<"Barcode not found.">>
       /\ VerifyPicksQuery(Reader) =>
             UNCHANGED <<products, committed, nextBatchId, nextOrderId>>]_vars

\* a barcode that no batch carries has been verified in a warehouse that
\* holds a batch with a pick on it
C18_Witness ==
    /\ conn[Reader].pc = "verified"
    /\ conn[Reader].local.verificationResult.messages = <<"Barcode not found.">>
    /\ \A b \in DOMAIN batches : batches[b].barcode # conn[Reader].req.barcode
    /\ \E p \in picks : p.batch_id \in DOMAIN batches

C19_WitnessNoActivePick ==
    /\ conn[Reader].pc = "verified"
    /\ ~conn[Reader].local.verificationResult.isValid
    /\ conn[Reader].local.batch.quantity > 0
    /\ conn[Reader].local.batch.expiry_date >= conn[Reader].local.today
    /\ \E p \in picks :
        /\ p.batch_id = conn[Reader].local.batch.batch_id
        /\ p.status = "Pending Pick"
        /\ orders[p.order_id].status = "Cancelled"

\* the classification the four conditions give on the stored numbers, "" when
\* none applies
Classification(loc, now) ==
    IF IsNull(loc.latest_temperature) \/ IsNull(loc.last_temp_update) THEN "No Readings"
    ELSE IF loc.latest_temperature[1] < loc.min_temp[1] THEN "Low Temperature"
    ELSE IF loc.latest_temperature[1] > loc.max_temp[1] THEN "High Temperature"
    ELSE IF loc.last_temp_update[1] < now - StaleAfterHours THEN "Stale Reading"
    ELSE ""

\* C20 (first half): getTemperatureAlerts reports a location if and only if
\* it is Cold Storage and at least one of the four conditions applies to it.
ReportedIffAlerting ==
    [][\A now \in Nows :
          GetTemperatureAlerts(now) =>
              \A l \in DOMAIN locations :
                  (\E a \in response' : a.location_id = l) <=>
                      /\ locations[l].location_type = "Cold Storage"
                      /\ Classification(locations[l], now) # ""]_vars

\* C20: getTemperatureAlerts reports a location if and only if it is Cold
\* Storage and at least one of the four conditions applies, and reports it
\* with exactly one classification, the first that applies in the order No
\* Readings, Low Temperature, High Temperature, Stale Reading.
C20_AlertsClassifiedInOrder ==
    [][\A now \in Nows :
          GetTemperatureAlerts(now) =>
              \A l \in DOMAIN locations :
                  /\ (\E a \in response' : a.location_id = l) <=>
                         /\ locations[l].location_type = "Cold Storage"
                         /\ Classification(locations[l], now) # ""
                  /\ \A a \in response' :
                         a.location_id = l =>
                             a.alert_type = Classification(locations[l], now)]_vars

\* C21: logTemperature is atomic. Every step that changes the temperature
\* log or a location's reading appends exactly one log entry for an existing
\* location and sets that location's latest_temperature to the entry's
\* reading and its last_temp_update, and changes nothing else; a request that
\* fails (no such location, deadlock, invalid body) changes neither.
C21_LogAndReadingTogether ==
    [][(temperature_logs' # temperature_logs \/ locations' # locations) =>
          /\ response' = "ok"
          /\ Len(temperature_logs') = Len(temperature_logs) + 1
          /\ SubSeq(temperature_logs', 1, Len(temperature_logs)) = temperature_logs
          /\ LET entry == temperature_logs'[Len(temperature_logs')] IN
             /\ entry.location_id \in DOMAIN locations
             /\ locations'[entry.location_id].latest_temperature
                    = <<entry.temperature_reading>>
             /\ ~IsNull(locations'[entry.location_id].last_temp_update)
             /\ locations'[entry.location_id].last_temp_update[1] >= entry.timestamp
             /\ \A l \in DOMAIN locations \ {entry.location_id} :
                    locations'[l] = locations[l]]_vars

\* a logTemperature was rolled back as the victim of a deadlock with another
\* one for the same location, after an earlier reading was logged
C21_Witness ==
    /\ response = "Deadlock"
    /\ temperature_logs # <<>>
    /\ \E r \in Conns : conn[r].pc = "log_update"

\* C22: in every reachable state no two picks share the same (order, batch)
\* pair, and every pick was created by a createOrder operation for the order
\* it references: a step adds picks only together with the order they name.
C22_PicksUniqueAndFromTheirOrder ==
    [][/\ \A p1 \in picks', p2 \in picks' :
             (p1.order_id = p2.order_id /\ p1.batch_id = p2.batch_id) => p1 = p2
       /\ \A p \in picks' \ picks :
             /\ p.order_id \in DOMAIN orders' \ DOMAIN orders
             /\ \E items \in ItemLists : CreateOrder(items)]_vars

\* an order whose two items ask for the same product was refused at the
\* second pick of the batch its first item was picked from
C22_Witness ==
    /\ response = "Duplicate"
    /\ \E b \in DOMAIN batches : batches[b].quantity >= 2
    /\ picks = {}

\* the rows of the sequence s
RowsOf(s) == {s[i] : i \in 1..Len(s)}

Eligible(loc, category, quantityNeeded) ==
    /\ loc.location_type = category
    /\ loc.current_occupancy + quantityNeeded <= loc.capacity
    /\ category = "Cold Storage" =>
          (IsNull(loc.latest_temperature) \/ ReadingInRange(loc))

\* C25: among the locations eligible for a request (matching type, enough free
\* capacity and, for Cold Storage, no reading or a reading in range) the
\* allocator returns one whose free capacity is maximal.
C25_MostFreeEligibleLocation ==
    \A p \in DOMAIN products : \A q \in Quantities :
        \A l \in findSuitableLocation(Db, p, q) :
            l > 0 => \A l2 \in DOMAIN locations :
                        Eligible(locations[l2], products[p].category, q)
                        => FreeCapacity(locations[l2]) <= FreeCapacity(locations[l])

\* C26: two concurrent createBatch intakes can each pass the allocator's
\* capacity check for the same location against the same committed occupancy
\* and both commit: the allocator's SELECT checks the committed occupancy and
\* locks nothing, and the COMMIT of an intake raises the occupancy of its
\* location by its quantity whatever the occupancy has become.
C26_CapacityCheckedOnceUnlocked ==
    [][\A r \in Conns :
        /\ (conn[r].pc = "idle" /\ conn'[r].pc = "insert_batch") =>
              LET l == conn'[r].local.suitableLocation IN
              /\ conn'[r].tx.ll = {}
              /\ conn'[r].tx.lb = {}
              /\ locations[l].current_occupancy + conn'[r].req.quantity
                    <= locations[l].capacity
        /\ (conn[r].pc = "commit" /\ conn'[r].pc = "idle") =>
              LET l == conn[r].local.suitableLocation IN
              /\ conn[r].local.newBatchId \in DOMAIN batches'
              /\ locations'[l].current_occupancy
                    = locations[l].current_occupancy + conn[r].req.quantity]_vars

\* two intakes were both committed to the Ambient location, which now holds
\* more than its capacity
C26_Witness ==
    /\ response = "ok"
    /\ \E l \in DOMAIN locations :
          /\ locations[l].current_occupancy > locations[l].capacity
          /\ Cardinality({b \in DOMAIN batches : batches[b].assigned_location_id = l}) = 2

\* the handlers on both connections wait for a row the other has locked
LockWaitCycle == \A r \in Conns : ~Ended(conn[r]) /\ r \in WaitsForWithin(r, NumConn)

\* C27: every createOrder, createBatch, updateBatch and deleteBatch that has
\* begun eventually ends in COMMIT or ROLLBACK and gives its connection back;
\* when two handlers wait for rows the other has locked, as two orders for the
\* same two products in opposite item order do, one of them is ended with the
\* deadlock error and goes to its ROLLBACK.
C27_EveryHandlerEnds ==
    /\ \A r \in Conns : (conn[r].pc # "idle") ~> (conn[r].pc = "idle")
    /\ LockWaitCycle ~> (\E r \in Conns : /\ conn[r].pc = "rollback"
                                          /\ conn[r].local.err = "Deadlock")

\* two orders with the items in opposite order: each has locked the batch of
\* its first item and waits for the batch of its second
C27_Witness ==
    /\ LockWaitCycle
    /\ \A r \in Conns : /\ conn[r].req.op = "createOrder"
                        /\ conn[r].pc = "item"
                        /\ conn[r].tx.lb # {}
    /\ conn[1].req.items[1].product_id = conn[2].req.items[2].product_id

\* C28: a successful createOrder changes only batches that are candidates for
\* its items (product of an item, quantity > 0, status Available) and the
\* locations they are assigned to: a batch of another status or product, and a
\* candidate that expires after candidates which cover the quantity asked of
\* its product, keeps its row and gets no pick; every other location keeps its
\* occupancy; no batch or location row is changed in another column.
C28_OrderTouchesOnlyItsCandidates ==
    [][\A o \in DOMAIN orders' \ DOMAIN orders :
          LET items == {i \in order_items' : i.order_id = o}
              candidate(b) == /\ \E i \in items : i.product_id = batches[b].product_id
                              /\ batches[b].quantity > 0
                              /\ batches[b].status = "Available"
              earlier(b) == {c \in DOMAIN batches :
                                /\ candidate(c)
                                /\ batches[c].product_id = batches[b].product_id
                                /\ batches[c].expiry_date < batches[b].expiry_date}
              asked(b) == SumRequested({i \in items : i.product_id = batches[b].product_id})
              passed(b) == ~candidate(b) \/ SumQuantity(batches, earlier(b)) >= asked(b)
              touched == {b \in DOMAIN batches : batches'[b] # batches[b]}
          IN  /\ DOMAIN batches' = DOMAIN batches
              /\ \A b \in DOMAIN batches :
                    /\ batches'[b] = [batches[b] EXCEPT !.quantity = batches'[b].quantity]
                    /\ passed(b) => /\ batches'[b] = batches[b]
                                    /\ \A p \in picks' \ picks : p.batch_id # b
              /\ \A l \in DOMAIN locations :
                    /\ locations'[l] = [locations[l] EXCEPT
                                           !.current_occupancy = locations'[l].current_occupancy]
                    /\ (\A b \in touched : batches[b].assigned_location_id # l)
                       => locations'[l] = locations[l]]_vars

\* an order has committed with a pick from the earlier-expiring batch of its
\* product, while the later-expiring batch of the product and a location with
\* stock of another product are as they were
C28_Witness ==
    /\ response = "ok"
    /\ \E o \in DOMAIN orders : \E p \in picks : \E b \in DOMAIN batches :
          /\ p.order_id = o
          /\ p.batch_id \in DOMAIN batches
          /\ b # p.batch_id
          /\ batches[b].product_id = batches[p.batch_id].product_id
          /\ batches[b].expiry_date > batches[p.batch_id].expiry_date
          /\ batches[b].status = "Available"
          /\ batches[b].quantity = MaxQty
          /\ \A p2 \in picks : p2.batch_id # b
          /\ batches[p.batch_id].quantity > 0

\* C29: updateBatch changes the occupancy of the batch's assigned location by
\* exactly new quantity - old quantity and no other occupancy, and none when
\* the batch has no assigned location; the old quantity it read under the row
\* lock is the quantity the row still holds when the edit commits, also with an
\* order depleting the same batch on another connection.
C29_EditAdjustsByFreshDifference ==
    [][\A r \in Conns :
          (/\ conn[r].req.op = "updateBatch"
           /\ conn[r].pc = "commit"
           /\ conn'[r].pc = "idle") =>
             LET id == conn[r].req.id
                 l == batches[id].assigned_location_id
             IN  /\ conn[r].local.oldQuantity = batches[id].quantity
                 /\ batches'[id].quantity = conn[r].req.quantity
                 /\ \A l2 \in DOMAIN locations :
                       locations'[l2].current_occupancy =
                           locations[l2].current_occupancy
                           + (IF l2 = l THEN conn[r].req.quantity - batches[id].quantity
                              ELSE 0)]_vars

\* an edit that raises the quantity of the batch an order has picked from is
\* at its COMMIT, and so is an edit of the batch without a location
C29_Witness ==
    \E r1 \in Conns, r2 \in Conns :
        /\ conn[r1].req.op = "updateBatch"
        /\ conn[r1].pc = "commit"
        /\ batches[conn[r1].req.id].assigned_location_id # 0
        /\ \E p \in picks : p.batch_id = conn[r1].req.id
        /\ conn[r1].local.oldQuantity < conn[r1].req.quantity
        /\ conn[r2].req.op = "updateBatch"
        /\ conn[r2].pc = "commit"
        /\ batches[conn[r2].req.id].assigned_location_id = 0
        /\ conn[r2].req.quantity # batches[conn[r2].req.id].quantity

\* C30: a createOrder whose item list holds an invalid item (no product, or a
\* quantity <= 0) at any position never commits: no step of its handler
\* changes the tables, and it ends with an error and a ROLLBACK that leaves no
\* order row, order item, pick or depletion of the items before the invalid
\* one.
C30_InvalidItemUndoesTheOrder ==
    [][\A r \in Conns :
          (/\ conn'[r] # conn[r]
           /\ \E t \in {conn[r], conn'[r]} :
                 /\ t.req.op = "createOrder"
                 /\ \E i \in 1..Len(t.req.items) :
                       t.req.items[i].product_id = 0 \/ t.req.items[i].quantity <= 0)
          => /\ UNCHANGED <<locations, batches, picks, orders, order_items>>
             /\ conn'[r].pc # "commit"
             /\ conn'[r].pc = "idle" => /\ conn[r].pc = "rollback"
                                        /\ response' = conn[r].local.err
                                        /\ response' # "ok"]_vars

\* an order is at its ROLLBACK for the invalid second item, with the order
\* row, the first item, its pick and the depletion of batch and location
\* pending
C30_Witness ==
    \E r \in Conns :
        /\ conn[r].req.op = "createOrder"
        /\ conn[r].pc = "rollback"
        /\ conn[r].local.err = "Validation"
        /\ conn[r].local.item = 2
        /\ conn[r].tx.io # EmptyFn
        /\ conn[r].tx.ii # {}
        /\ conn[r].tx.ip # {}
        /\ \E l \in LocIds : conn[r].tx.occ[l] < 0

\* the columns of a pick other than its status
PickApartFromStatus(p) ==
    [pick_id |-> p.pick_id, order_id |-> p.order_id, batch_id |-> p.batch_id,
     quantity_picked |-> p.quantity_picked]

\* C31: setOrderStatus, setPickStatus and recordDispatch change nothing but
\* the status of the named order, the status of the named pick, or the set
\* of dispatch records by one row: batch quantities, occupancies and the
\* picks apart from their status stay, also when an order is set to
\* Cancelled; and every one of the four order statuses can be set on an
\* existing order whatever its current status is
C31_StatusStepsChangeOnlyStatus ==
    /\ [](\A o \in DOMAIN orders :
            \A st \in {"Pending", "Completed", "Dispatched", "Cancelled"} :
                ENABLED (SetOrderStatus(o, st) /\ orders'[o].status = st /\ response' = "ok"))
    /\ [][/\ \A o \in 1..MaxOrders + 1, st \in OrderStatuses \cup {"Unknown"} :
                SetOrderStatus(o, st) =>
                    /\ UNCHANGED <<locations, batches, picks, order_items, dispatches>>
                    /\ DOMAIN orders' = DOMAIN orders
                    /\ \A o2 \in DOMAIN orders :
                           /\ o2 # o => orders'[o2] = orders[o2]
                           /\ orders'[o2] = [orders[o2] EXCEPT !.status = orders'[o2].status]
          /\ \A o \in 1..MaxOrders, b \in BatchIds, st \in PickStatuses \cup {"Unknown"} :
                SetPickStatus(o, b, st) =>
                    /\ UNCHANGED <<locations, batches, orders, order_items, dispatches>>
                    /\ {PickApartFromStatus(p) : p \in picks'}
                           = {PickApartFromStatus(p) : p \in picks}
                    /\ Cardinality(picks') = Cardinality(picks)
                    /\ \A p \in picks :
                           (p.order_id # o \/ p.batch_id # b) => p \in picks'
          /\ \A o \in 0..MaxOrders + 1, by \in Dispatchers, d \in DispatchDates :
                RecordDispatch(o, by, d) =>
                    /\ UNCHANGED <<locations, batches, picks, orders, order_items>>
                    /\ dispatches \subseteq dispatches'
                    /\ Cardinality(dispatches') <= Cardinality(dispatches) + 1
                    /\ \A x \in dispatches' \ dispatches : x.order_id = o]_vars

\* an order that emptied a batch is Cancelled, its dispatch is recorded and
\* its pick is marked Picked, and the batch and its location are still empty
C31_Witness ==
    /\ \E o \in DOMAIN orders : orders[o].status = "Cancelled"
    /\ response = "ok"
    /\ dispatches # {}
    /\ \E p \in picks :
          /\ p.status = "Picked"
          /\ p.batch_id \in DOMAIN batches
          /\ batches[p.batch_id].quantity = 0
          /\ locations[batches[p.batch_id].assigned_location_id].current_occupancy = 0

\* the quantity the items of a request ask for of product p, and the
\* quantity the Available batches of p hold together
RECURSIVE RequestedOf(_, _)
RequestedOf(items, p) ==
    IF items = <<>> THEN 0
    ELSE (IF Head(items).product_id = p THEN Head(items).quantity ELSE 0)
         + RequestedOf(Tail(items), p)

AvailableOf(rows, p) == SumQuantity(rows, {b \in DOMAIN rows : IsCandidate(rows[b], p)})

\* C32: createOrder fails only for lack of stock: an order whose items ask,
\* product by product, for no more than the Available batches of the product
\* hold succeeds, also when two of its items name the same product, and the
\* batches are depleted by what all its items ask for
C32_OrderFailsOnlyForLackOfStock ==
    [][\A items \in ItemLists :
          (/\ CreateOrder(items)
           /\ \A p \in Products : RequestedOf(items, p) <= AvailableOf(batches, p))
          => /\ response' = "ok"
             /\ \A p \in Products :
                    AvailableOf(batches', p) = AvailableOf(batches, p) - RequestedOf(items, p)]_vars

\* C33: every batch with an assigned location is stored in a location whose
\* location_type is the category of the batch's product
C33_StoredInLocationOfItsCategory ==
    \A b \in DOMAIN batches :
        batches[b].assigned_location_id # 0 =>
            locations[batches[b].assigned_location_id].location_type
                = products[batches[b].product_id].category

\* the committed log entries of location l, and the one of them appended last
LogEntriesOf(l) ==
    {temperature_logs[i] : i \in {j \in 1..Len(temperature_logs) :
                                     temperature_logs[j].location_id = l}}

LastLogged(l) == CHOOSE e \in LogEntriesOf(l) : \A x \in LogEntriesOf(l) : x.log_id <= e.log_id

\* C34: whenever no logTemperature is under way for a location that has log
\* entries, the location's latest_temperature is the reading of the entry
\* with the highest log_id among its entries
C34_CacheIsLastLoggedReading ==
    \A l \in DOMAIN locations :
        (/\ LogEntriesOf(l) # {}
         /\ \A r \in Conns : conn[r].pc = "log_update" => conn[r].req.location_id # l)
        => locations[l].latest_temperature = <<LastLogged(l).temperature_reading>>

\* two readings for one location were under way together, one was rolled
\* back as the victim of the deadlock, the other and a later one are logged
C34_Witness ==
    /\ response = "ok"
    /\ \A r \in Conns : conn[r].pc = "idle"
    /\ \E l \in DOMAIN locations :
          /\ Cardinality(LogEntriesOf(l)) >= 2
          /\ \E e \in LogEntriesOf(l) : e.temperature_reading # LastLogged(l).temperature_reading
          /\ \E e \in LogEntriesOf(l) : \A x \in LogEntriesOf(l) : x.log_id # e.log_id + 1
                                             /\ e.log_id # LastLogged(l).log_id

\* the batches of rows that are in stock and Available and whose expiry date
\* lies before the day today ("expired" as the expiry alert has it)
ExpiredInStock(rows, today) ==
    {b \in DOMAIN rows : /\ rows[b].quantity > 0
                         /\ rows[b].status = "Available"
                         /\ rows[b].expiry_date < today}

\* C35: the selection of candidates does not look at the day. Whatever day
\* it is, a createOrder step that picks for a product of which expired
\* batches are in stock and Available picks from one of them, and it picks
\* from a batch that has not expired only together with all that every
\* expired batch of the product held.
C35_ExpiredStockIsPickedFirst ==
    [][\A today \in Todays :
          \A p \in picks' \ picks :
              LET product == batches[p.batch_id].product_id
                  expired == {b \in ExpiredInStock(batches, today) :
                                 batches[b].product_id = product}
              IN  /\ expired # {} => \E q \in picks' \ picks : q.batch_id \in expired
                  /\ batches[p.batch_id].expiry_date >= today =>
                        \A b \in expired :
                            /\ batches'[b].quantity = 0
                            /\ \E q \in picks' \ picks :
                                  q.batch_id = b /\ q.quantity_picked = batches[b].quantity]_vars

\* an order was served from a batch that had expired by the second day, which
\* it emptied, and from a batch that expires later
C35_Witness ==
    /\ response = "ok"
    /\ \E p1 \in picks, p2 \in picks :
          /\ p1.order_id = p2.order_id
          /\ p1.batch_id \in DOMAIN batches /\ p2.batch_id \in DOMAIN batches
          /\ batches[p1.batch_id].expiry_date < 2
          /\ batches[p1.batch_id].quantity = 0
          /\ batches[p2.batch_id].expiry_date >= 2
          /\ batches[p1.batch_id].product_id = batches[p2.batch_id].product_id
          /\ batches[p1.batch_id].status = "Available"

\* the quantity the picks of rows took from batch b
PickedFrom(rows, b) == SumPicked({p \in rows : p.batch_id = b})

\* the connection r commits a request of kind op in this step
Commits(r, op) == conn[r].pc = "commit" /\ conn'[r].pc = "idle" /\ conn[r].req.op = op

\* C36: stock is conserved per batch. A batch comes into being with the
\* quantity of its createBatch request and no picks; for a batch that exists
\* before and after a step, its quantity plus the quantity_picked of the
\* picks that reference it stays the same unless the step commits an
\* updateBatch of that batch; and every pick has quantity_picked >= 1. So
\* for a batch never edited the sum is its creation quantity in every
\* committed state.
C36_StockConservedPerBatch ==
    [][/\ \A p \in picks' : p.quantity_picked >= 1
       /\ \A b \in DOMAIN batches' :
             IF b \notin DOMAIN batches
             THEN /\ PickedFrom(picks', b) = 0
                  /\ \E r \in Conns : /\ Commits(r, "createBatch")
                                      /\ batches'[b].quantity = conn[r].req.quantity
             ELSE \/ batches'[b].quantity + PickedFrom(picks', b)
                        = batches[b].quantity + PickedFrom(picks, b)
                  \/ \E r \in Conns : Commits(r, "updateBatch") /\ conn[r].req.id = b]_vars

\* a batch taken in with two units holds one, the other is in a pick
C36_Witness ==
    /\ response = "ok"
    /\ \E b \in DOMAIN batches :
          /\ batches[b].quantity = 1
          /\ PickedFrom(picks, b) = 1
          /\ \A b2 \in DOMAIN batches \ {b} : PickedFrom(picks, b2) = 0
    /\ \A r \in Conns : conn[r].pc = "idle"

====
